---- MODULE Spec2Model ----
(***************************************************************************)
(* A model of traits/trait_handlers.py: the trait handlers (validators),   *)
(* their validate / post_setattr / mapped_value methods and the two        *)
(* self-mutations (lazy class resolution, prefix cache).                   *)
(*                                                                         *)
(* Handlers live in a heap (handler id -> the object's attributes), so     *)
(* that a compound holds references to its branches and a branch's own     *)
(* mutation is seen through every reference to it.                         *)
(***************************************************************************)
EXTENDS Integers, Sequences, FiniteSets, TLC

VARIABLES
    heap,      \* handler id -> the handler object's attributes
    shadow,    \* the owner's shadow attribute  name + "_"
    trait,     \* the owner's declared trait for name: its handler and validate
    modules,   \* the modules that are loaded (sys.modules) and those an import finds
    built,     \* per compound: the branches that had a fast_validate at its last set_validate
    last,      \* the last call made on a handler and what it did
    callers    \* per concurrent caller: where it is in the validate call it makes

vars == <<heap, shadow, trait, modules, built, last, callers>>

(***************************************************************************)
(* Python values.  Every value is a record of its type and its content, a  *)
(* string being the sequence of its characters.                            *)
(***************************************************************************)
Str(chars) == [t |-> "str", s |-> chars]
NoneV == [t |-> "NoneType", s |-> <<>>]
IntV(d) == [t |-> "int", s |-> <<d>>]
Obj(cls, id) == [t |-> cls, s |-> <<id>>]
\* A float is its integer part and its decimals, a complex number the two of
\* its real part and the two of its imaginary part.
FloatV(int, dec) == [t |-> "float", s |-> <<int, dec>>]
ComplexV(re, im) == [t |-> "complex", s |-> re.s \o im.s]
BoolV(b) == [t |-> "bool", s |-> <<b>>]

\* The owner has no shadow attribute yet.
Unset == [t |-> "unset", s |-> <<>>]

S_yes == Str(<<"y", "e", "s">>)
S_no == Str(<<"n", "o">>)
ObjC == Obj("C", "o1")
\* [], a value that cannot be hashed
L_empty == [t |-> "list", s |-> <<>>]

\* A handler attribute that does not exist (getattr(handler, ..., None)).
Absent == <<>>

\* type(value) is aType
TypeIs(value, aType) == value.t = aType

\* isinstance(value, aClass), aClass a resolved class
IsInstance(value, aClass) == value.t = aClass.name

(***************************************************************************)
(* Results.  A validate call returns a value or raises TraitError; either  *)
(* way it may have changed handlers (st.heap), the owner's trait           *)
(* (st.trait) and the loaded modules (st.modules).  via is the branch of a *)
(* compound whose validate returned.                                       *)
(***************************************************************************)
NoVia == ""
Return(st, value) == [ok |-> TRUE, value |-> value, st |-> st, via |-> NoVia]
Error(st, value) == [ok |-> FALSE, value |-> value, st |-> st, via |-> NoVia]

(***************************************************************************)
(* TraitEnum                                                               *)
(***************************************************************************)
TraitEnum(values) ==
    [kind |-> "Enum", values |-> values, fast_validate |-> <<"enum", values>>]

TraitEnum_validate(st, h, value) ==
    IF \E i \in 1..Len(st.heap[h].values) : st.heap[h].values[i] = value
    THEN Return(st, value)
    ELSE Error(st, value)

(***************************************************************************)
(* TraitCastType                                                           *)
(***************************************************************************)
TraitCastType(aType) ==
    [kind |-> "Cast", aType |-> aType, fast_validate |-> <<"cast", aType>>]

\* The characters of a number: a numeric string of the model spells an int
\* (one digit) or a float (a digit, a point, a digit), as the numbers have one
\* digit in each part.
Digits == {"0", "1", "2", "3", "4", "5", "6", "7", "8", "9"}
IsDigit(chars) == Len(chars) = 1 /\ chars[1] \in Digits
IsDecimal(chars) ==
    Len(chars) = 3 /\ chars[1] \in Digits /\ chars[2] = "." /\ chars[3] \in Digits

\* The characters str() and repr() give a float.
FloatChars(value) == <<value.s[1], ".", value.s[2]>>

\* The characters str() gives a part of a complex number: a whole part is
\* written without its decimals.
PartChars(int, dec) == IF dec = "0" THEN <<int>> ELSE <<int, ".", dec>>

\* str(value): the conversion call of TraitCastType(str); it never raises.
StrOf(value) ==
    CASE value.t = "str" -> value
      [] value.t = "NoneType" -> Str(<<"N", "o", "n", "e">>)
      [] value.t = "int" -> Str(value.s)
      [] value.t = "float" -> Str(FloatChars(value))
      [] value.t = "bool" ->
            IF value.s[1] = "True"
            THEN Str(<<"T", "r", "u", "e">>)
            ELSE Str(<<"F", "a", "l", "s", "e">>)
      [] value.t = "complex" ->
            LET im == PartChars(value.s[3], value.s[4]) \o <<"j">>
            IN  IF value.s[1] = "0" /\ value.s[2] = "0"
                THEN Str(im)
                ELSE Str(<<"(">> \o PartChars(value.s[1], value.s[2])
                         \o <<"+">> \o im \o <<")">>)
      [] OTHER -> Str(<<"<", value.t, ">">>)

\* The call raised.
Raised(value) == [ok |-> FALSE, value |-> value]

\* int(value): a bool is 0 or 1, a float is truncated, a string is parsed;
\* TypeError for a complex number, None, a list and an object without __int__,
\* ValueError for a string that spells no int.
IntOf(value) ==
    CASE value.t = "int" -> [ok |-> TRUE, value |-> value]
      [] value.t = "bool" ->
            [ok |-> TRUE, value |-> IntV(IF value.s[1] = "True" THEN "1" ELSE "0")]
      [] value.t = "float" -> [ok |-> TRUE, value |-> IntV(value.s[1])]
      [] value.t = "str" ->
            IF IsDigit(value.s)
            THEN [ok |-> TRUE, value |-> IntV(value.s[1])]
            ELSE Raised(value)
      [] OTHER -> Raised(value)

\* float(value): an int and a bool get no decimals, a string is parsed;
\* TypeError for a complex number, None, a list and an object without
\* __float__, ValueError for a string that spells no number.
FloatOf(value) ==
    CASE value.t = "float" -> [ok |-> TRUE, value |-> value]
      [] value.t = "int" -> [ok |-> TRUE, value |-> FloatV(value.s[1], "0")]
      [] value.t = "bool" ->
            [ok |-> TRUE,
             value |-> FloatV(IF value.s[1] = "True" THEN "1" ELSE "0", "0")]
      [] value.t = "str" ->
            IF IsDigit(value.s)
            THEN [ok |-> TRUE, value |-> FloatV(value.s[1], "0")]
            ELSE IF IsDecimal(value.s)
            THEN [ok |-> TRUE, value |-> FloatV(value.s[1], value.s[3])]
            ELSE Raised(value)
      [] OTHER -> Raised(value)

\* complex(value): a real number gets the imaginary part 0.
ComplexOf(value) ==
    IF value.t = "complex"
    THEN [ok |-> TRUE, value |-> value]
    ELSE LET real == FloatOf(value)
         IN  IF real.ok
             THEN [ok |-> TRUE, value |-> ComplexV(real.value, FloatV("0", "0"))]
             ELSE Raised(value)

\* bool(value): False for None, a zero and an empty string or list, True for
\* everything else; it never raises.
BoolOf(value) ==
    LET falsy ==
            CASE value.t = "NoneType" -> TRUE
              [] value.t = "bool" -> value.s[1] = "False"
              [] value.t \in {"int", "float", "complex"} ->
                    \A i \in DOMAIN value.s : value.s[i] = "0"
              [] value.t \in {"str", "list"} -> value.s = <<>>
              [] OTHER -> FALSE
    IN  BoolV(IF falsy THEN "False" ELSE "True")

\* aType(value): [ok, value], ok = FALSE when the call raises.
Convert(aType, value) ==
    CASE aType = "str" -> [ok |-> TRUE, value |-> StrOf(value)]
      [] aType = "int" -> IntOf(value)
      [] aType = "float" -> FloatOf(value)
      [] aType = "complex" -> ComplexOf(value)
      [] aType = "bool" -> [ok |-> TRUE, value |-> BoolOf(value)]
      [] OTHER -> Raised(value)

\* validate that returns the value it was given when the conversion call
\* raises.
TraitCastType_validate_passes(st, h, value) ==
    IF TypeIs(value, st.heap[h].aType)
    THEN Return(st, value)
    ELSE LET c == Convert(st.heap[h].aType, value)
         IN  IF c.ok THEN Return(st, c.value) ELSE Return(st, value)

TraitCastType_validate(st, h, value) ==
    IF TypeIs(value, st.heap[h].aType)
    THEN Return(st, value)
    ELSE LET c == Convert(st.heap[h].aType, value)
         IN  IF c.ok THEN Return(st, c.value) ELSE Error(st, value)

(***************************************************************************)
(* TraitMap                                                                *)
(***************************************************************************)
TraitMap(map) ==
    [kind |-> "Map", map |-> map, fast_validate |-> <<"map", map>>]

\* A validate that returns the mapped value instead of the key.
TraitMap_validate_mapped(st, h, value) ==
    IF value \in DOMAIN st.heap[h].map
    THEN Return(st, st.heap[h].map[value])
    ELSE Error(st, value)

TraitMap_validate(st, h, value) ==
    IF value \in DOMAIN st.heap[h].map
    THEN Return(st, value)
    ELSE Error(st, value)

\* [raised, value]: self.map[value], a KeyError when value is no key.
TraitMap_mapped_value(hp, h, value) ==
    IF value \in DOMAIN hp[h].map
    THEN [raised |-> FALSE, value |-> hp[h].map[value]]
    ELSE [raised |-> TRUE, value |-> value]

\* A post_setattr call: raised (TraitError "Unmappable"), the shadow attribute
\* after it, the number of setattr calls made, and calls: the handlers whose
\* hook this call invoked itself (for a compound, its branches' hooks).
\* A post_setattr that swallows the failed lookup instead of raising.
TraitMap_post_setattr_silent(hp, h, sh, value) ==
    LET m == IF value \in DOMAIN hp[h].map
             THEN [raised |-> FALSE, value |-> hp[h].map[value]]
             ELSE [raised |-> TRUE, value |-> value]
    IN  IF m.raised
        THEN [raised |-> FALSE, shadow |-> sh, writes |-> 0, calls |-> <<>>]
        ELSE [raised |-> FALSE, shadow |-> m.value, writes |-> 1, calls |-> <<>>]

TraitMap_post_setattr(hp, h, sh, value) ==
    LET m == TraitMap_mapped_value(hp, h, value)
    IN  IF m.raised
        THEN [raised |-> TRUE, shadow |-> sh, writes |-> 0, calls |-> <<>>]
        ELSE [raised |-> FALSE, shadow |-> m.value, writes |-> 1, calls |-> <<>>]

(***************************************************************************)
(* TraitInstance                                                           *)
(***************************************************************************)
\* aClass is a class, or a string naming one: "module.name", or "name" alone
\* (module = "") to be looked up in the handler's module.
Class(name) == [tag |-> "class", module |-> "", name |-> name]
Path(module, name) == [tag |-> "path", module |-> module, name |-> name]

\* trait_base.TypeTypes
TypeTypes ==
    {Class(n) : n \in {"str", "int", "float", "complex", "list", "tuple", "dict", "bool"}}

\* The classes the modules of the program define.
ModuleClasses == {<<"mod", "C">>, <<"builtins", "int">>}

set_fast_validate(obj) ==
    LET fv0 == IF obj._allow_none
               THEN <<"instance", "None", obj.aClass.name>>
               ELSE <<"instance", obj.aClass.name>>
        fv1 == IF obj.aClass \in TypeTypes THEN [fv0 EXCEPT ![1] = "type"] ELSE fv0
    IN  [obj EXCEPT !.fast_validate = fv1]

TraitInstance(aClass, allow_none, module) ==
    LET obj == [kind |-> "Instance", aClass |-> aClass, _allow_none |-> allow_none,
                module |-> module, fast_validate |-> Absent]
    IN  IF aClass.tag = "path" THEN obj ELSE set_fast_validate(obj)

allow_none(obj) ==
    LET o1 == [obj EXCEPT !._allow_none = TRUE]
    IN  IF o1.fast_validate # Absent THEN set_fast_validate(o1) ELSE o1

\* [found, class, modules]: the class a path names, and sys.modules after the
\* lookup (an import that succeeds loads the module).
find_class(obj, mods) ==
    LET col == obj.aClass.module # ""
        module == IF col THEN obj.aClass.module ELSE obj.module
        klass == obj.aClass.name
        defined == <<module, klass>> \in ModuleClasses
    IN  IF module \in mods.loaded /\ defined
        THEN [found |-> TRUE, class |-> Class(klass), modules |-> mods]
        ELSE IF col /\ module \in mods.importable
        THEN [found |-> defined, class |-> Class(klass),
              modules |-> [mods EXCEPT !.loaded = @ \cup {module}]]
        ELSE [found |-> FALSE, class |-> Class(klass), modules |-> mods]

validate_class(found) == found

\* resolve_class that leaves the descriptor as it was.
resolve_class_no_refresh(st, h, value) ==
    LET f == validate_class(find_class(st.heap[h], st.modules))
        obj == [st.heap[h] EXCEPT !.aClass = f.class]
    IN  IF ~f.found
        THEN [ok |-> FALSE, st |-> [st EXCEPT !.modules = f.modules]]
        ELSE [ok |-> TRUE,
              st |-> [st EXCEPT !.heap = [@ EXCEPT ![h] = obj],
                                !.modules = f.modules]]

\* resolve_class that stores what find_class returned before it looks at it.
resolve_class_store_first(st, h, value) ==
    LET f == validate_class(find_class(st.heap[h], st.modules))
        r == resolve_class_no_refresh(st, h, value)
    IN  IF ~f.found
        THEN [ok |-> FALSE,
              st |-> [r.st EXCEPT !.heap = [@ EXCEPT ![h].aClass = Class("None")]]]
        ELSE [ok |-> TRUE,
              st |-> [r.st EXCEPT !.heap = [@ EXCEPT ![h] = set_fast_validate(@)]]]

\* [ok, st]: ok = FALSE when it raises TraitError.
resolve_class(st, h, value) ==
    LET f == validate_class(find_class(st.heap[h], st.modules))
        obj == set_fast_validate([st.heap[h] EXCEPT !.aClass = f.class])
        handler == st.trait.handler
        hp1 == [st.heap EXCEPT ![h] = obj]
    IN  IF ~f.found
        THEN [ok |-> FALSE, st |-> [st EXCEPT !.modules = f.modules]]
        ELSE IF handler # h /\ st.heap[handler].kind = "List"
        THEN [ok |-> TRUE,
              st |-> [st EXCEPT !.heap = [hp1 EXCEPT ![handler].item_validate =
                                                         obj.fast_validate],
                                !.modules = f.modules]]
        ELSE [ok |-> TRUE,
              st |-> [st EXCEPT !.heap = hp1,
                                !.trait = [@ EXCEPT !.validate = obj.fast_validate],
                                !.modules = f.modules]]

\* A validate that patches the trait on every call, resolved or not.
TraitInstance_validate_repatch(st, h, value) ==
    IF value = NoneV
    THEN IF st.heap[h]._allow_none THEN Return(st, value) ELSE Error(st, value)
    ELSE LET r == IF st.heap[h].aClass.tag = "path"
                  THEN resolve_class(st, h, value)
                  ELSE [ok |-> TRUE,
                        st |-> [st EXCEPT !.trait.validate = st.heap[h].fast_validate]]
         IN  IF ~r.ok
             THEN Error(r.st, value)
             ELSE IF IsInstance(value, r.st.heap[h].aClass)
             THEN Return(r.st, value)
             ELSE Error(r.st, value)

TraitInstance_validate(st, h, value) ==
    IF value = NoneV
    THEN IF st.heap[h]._allow_none THEN Return(st, value) ELSE Error(st, value)
    ELSE LET r == IF st.heap[h].aClass.tag = "path"
                  THEN resolve_class(st, h, value)
                  ELSE [ok |-> TRUE, st |-> st]
         IN  IF ~r.ok
             THEN Error(r.st, value)
             ELSE IF IsInstance(value, r.st.heap[h].aClass)
             THEN Return(r.st, value)
             ELSE Error(r.st, value)

(***************************************************************************)
(* TraitPrefixList and TraitPrefixMap                                      *)
(***************************************************************************)
\* The cache a prefix handler starts with: every full string maps to itself.
IdentityCache(keys) ==
    [k \in {keys[i] : i \in 1..Len(keys)} |-> k]

TraitPrefixList(values) ==
    [kind |-> "PrefixList", values |-> values, values_ |-> IdentityCache(values),
     fast_validate |-> <<"prefix_map">>]

\* map is the caller's dict: its keys in iteration order, and its entries.
TraitPrefixMap(keys, map) ==
    [kind |-> "PrefixMap", keys |-> keys, map |-> map, _map |-> IdentityCache(keys),
     fast_validate |-> <<"prefix_map">>]

\* len(value) raises TypeError for a value that has no length.
HasLen(value) == value.t \in {"str", "list", "tuple"}

\* key[:n]
Slice(key, n) == [key EXCEPT !.s = SubSeq(@, 1, IF n < Len(@) THEN n ELSE Len(@))]

\* The scan of validate from keys[i] on: the match, None when there is none or
\* a second one was met (break).
RECURSIVE prefix_scan(_, _, _, _)

\* A scan that stops at the first match.
RECURSIVE prefix_scan_first(_, _, _, _)
prefix_scan_first(keys, i, value, match) ==
    IF i > Len(keys)
    THEN match
    ELSE IF value = Slice(keys[i], Len(value.s))
    THEN keys[i]
    ELSE prefix_scan_first(keys, i + 1, value, match)

prefix_scan(keys, i, value, match) ==
    IF i > Len(keys)
    THEN match
    ELSE IF value = Slice(keys[i], Len(value.s))
    THEN IF match # NoneV
         THEN NoneV
         ELSE prefix_scan(keys, i + 1, value, keys[i])
    ELSE prefix_scan(keys, i + 1, value, match)

\* [ok, value, cache]: validate over the full strings keys and the cache.
prefix_validate(keys, cache, value) ==
    IF value \in DOMAIN cache
    THEN [ok |-> TRUE, value |-> cache[value], cache |-> cache]
    ELSE IF ~HasLen(value)
    THEN [ok |-> FALSE, value |-> value, cache |-> cache]
    ELSE LET match == prefix_scan(keys, 1, value, NoneV)
         IN  IF match = NoneV
             THEN [ok |-> FALSE, value |-> value, cache |-> cache]
             ELSE [ok |-> TRUE, value |-> match,
                   cache |-> [k \in DOMAIN cache \cup {value} |->
                                 IF k = value THEN match ELSE cache[k]]]

\* validate that stores the match in the cache before it tests it.
TraitPrefixList_validate_store_first(st, h, value) ==
    LET cache == st.heap[h].values_
        r == prefix_validate(st.heap[h].values, cache, value)
        stored == [k \in DOMAIN cache \cup {value} |->
                      IF k = value THEN NoneV ELSE cache[k]]
    IN  IF r.ok
        THEN Return([st EXCEPT !.heap[h].values_ = r.cache], r.value)
        ELSE IF HasLen(value)
        THEN Error([st EXCEPT !.heap[h].values_ = stored], value)
        ELSE Error(st, value)

TraitPrefixList_validate(st, h, value) ==
    LET r == prefix_validate(st.heap[h].values, st.heap[h].values_, value)
    IN  IF r.ok
        THEN Return([st EXCEPT !.heap[h].values_ = r.cache], r.value)
        ELSE Error(st, value)

TraitPrefixMap_validate(st, h, value) ==
    LET r == prefix_validate(st.heap[h].keys, st.heap[h]._map, value)
    IN  IF r.ok
        THEN Return([st EXCEPT !.heap[h]._map = r.cache], r.value)
        ELSE Error(st, value)

(***************************************************************************)
(* What TraitCompound.set_validate reads of a branch                       *)
(***************************************************************************)
\* getattr(handler, "fast_validate", None)
FastValidateOf(hp, h) == hp[h].fast_validate

\* handler.is_mapped: True in TraitMap and its subclass, set by set_validate
\* in a compound, the base class's False elsewhere.
IsMapped(hp, h) ==
    CASE hp[h].kind \in {"Map", "PrefixMap"} -> TRUE
      [] hp[h].kind = "Compound" -> hp[h].is_mapped
      [] OTHER -> FALSE

\* handler.has_items
HasItems(hp, h) ==
    CASE hp[h].kind \in {"Compound", "List", "Dict"} -> hp[h].has_items
      [] OTHER -> FALSE

\* getattr(handler, "post_setattr", None) is not None
HasPostSetattr(hp, h) ==
    CASE hp[h].kind \in {"Map", "PrefixMap"} -> TRUE
      [] hp[h].kind = "Compound" -> hp[h].post_setattr
      [] OTHER -> FALSE

(***************************************************************************)
(* TraitCompound                                                           *)
(***************************************************************************)
\* The lists set_validate starts from.
EmptyLists ==
    [is_mapped |-> FALSE, has_items |-> FALSE, reversable |-> TRUE,
     post_setattrs |-> <<>>, mapped_handlers |-> <<>>, validates |-> <<>>,
     fast_validates |-> <<>>, slow_validates |-> <<>>]

\* A pass that takes a mapped branch into account but never clears reversable.
set_validate_step_reversable(hp, handler, acc) ==
    LET fv == FastValidateOf(hp, handler)
        a1 == IF fv # Absent
              THEN [acc EXCEPT !.validates = Append(@, handler),
                               !.fast_validates =
                                   IF fv[1] = "complex" THEN @ \o fv[2] ELSE Append(@, fv)]
              ELSE [acc EXCEPT !.slow_validates = Append(@, handler)]
        a2 == IF HasPostSetattr(hp, handler)
              THEN [a1 EXCEPT !.post_setattrs = Append(@, handler)]
              ELSE a1
    IN  IF IsMapped(hp, handler)
        THEN [a2 EXCEPT !.is_mapped = TRUE, !.mapped_handlers = Append(@, handler)]
        ELSE a2

\* A pass that appends the descriptor of a compound branch as it is.
set_validate_step_nested(hp, handler, acc) ==
    LET fv == FastValidateOf(hp, handler)
        a1 == IF fv # Absent
              THEN [acc EXCEPT !.validates = Append(@, handler),
                               !.fast_validates = Append(@, fv)]
              ELSE [acc EXCEPT !.slow_validates = Append(@, handler)]
        a2 == IF HasPostSetattr(hp, handler)
              THEN [a1 EXCEPT !.post_setattrs = Append(@, handler)]
              ELSE a1
        a3 == IF IsMapped(hp, handler)
              THEN [a2 EXCEPT !.is_mapped = TRUE, !.mapped_handlers = Append(@, handler)]
              ELSE [a2 EXCEPT !.reversable = FALSE]
    IN  IF HasItems(hp, handler) THEN [a3 EXCEPT !.has_items = TRUE] ELSE a3

\* One pass of the loop of set_validate, for the branch handler.
set_validate_step(hp, handler, acc) ==
    LET fv == FastValidateOf(hp, handler)
        a1 == IF fv # Absent
              THEN [acc EXCEPT !.validates = Append(@, handler),
                               !.fast_validates =
                                   IF fv[1] = "complex" THEN @ \o fv[2] ELSE Append(@, fv)]
              ELSE [acc EXCEPT !.slow_validates = Append(@, handler)]
        a2 == IF HasPostSetattr(hp, handler)
              THEN [a1 EXCEPT !.post_setattrs = Append(@, handler)]
              ELSE a1
        a3 == IF IsMapped(hp, handler)
              THEN [a2 EXCEPT !.is_mapped = TRUE, !.mapped_handlers = Append(@, handler)]
              ELSE [a2 EXCEPT !.reversable = FALSE]
    IN  IF HasItems(hp, handler) THEN [a3 EXCEPT !.has_items = TRUE] ELSE a3

RECURSIVE set_validate_loop(_, _, _, _)
set_validate_loop(hp, handlers, i, acc) ==
    IF i > Len(handlers)
    THEN acc
    ELSE set_validate_loop(hp, handlers, i + 1, set_validate_step(hp, handlers[i], acc))

\* set_validate that appends the sentinel whether or not there is a slow branch.
set_validate_sentinel(hp, c) ==
    LET acc == set_validate_loop(hp, hp[c].handlers, 1, EmptyLists)
    IN  [hp[c] EXCEPT
            !.is_mapped = acc.is_mapped,
            !.has_items = acc.has_items,
            !.reversable = acc.reversable,
            !.validates = acc.validates,
            !.slow_validates = acc.slow_validates,
            !.mapped_handlers = IF acc.is_mapped THEN acc.mapped_handlers ELSE <<>>,
            !.fast_validate =
                IF Len(acc.fast_validates) > 0
                THEN <<"complex", Append(acc.fast_validates, <<"slow", c>>)>>
                ELSE Absent,
            !.post_setattrs = IF Len(acc.post_setattrs) > 0 THEN acc.post_setattrs ELSE @,
            !.post_setattr = Len(acc.post_setattrs) > 0]

\* The compound c after self.set_validate().
set_validate(hp, c) ==
    LET acc == set_validate_loop(hp, hp[c].handlers, 1, EmptyLists)
    IN  [hp[c] EXCEPT
            !.is_mapped = acc.is_mapped,
            !.has_items = acc.has_items,
            !.reversable = acc.reversable,
            !.validates = acc.validates,
            !.slow_validates = acc.slow_validates,
            !.mapped_handlers = IF acc.is_mapped THEN acc.mapped_handlers ELSE <<>>,
            !.fast_validate =
                IF Len(acc.fast_validates) > 0
                THEN IF Len(acc.slow_validates) > 0
                     THEN <<"complex", Append(acc.fast_validates, <<"slow", c>>)>>
                     ELSE <<"complex", acc.fast_validates>>
                ELSE Absent,
            !.post_setattrs = IF Len(acc.post_setattrs) > 0 THEN acc.post_setattrs ELSE @,
            !.post_setattr = Len(acc.post_setattrs) > 0]

\* The object __init__ has made before it calls set_validate.
NewCompound(handlers) ==
    [kind |-> "Compound", handlers |-> handlers, is_mapped |-> FALSE,
     has_items |-> FALSE, reversable |-> TRUE, validates |-> <<>>,
     slow_validates |-> <<>>, mapped_handlers |-> <<>>, fast_validate |-> Absent,
     post_setattrs |-> <<>>, post_setattr |-> FALSE]

\* The heap after TraitCompound(*handlers) made the object c, the branches
\* being in hp already.
TraitCompound(hp, c, handlers) ==
    LET hp0 == [x \in DOMAIN hp \cup {c} |->
                   IF x = c THEN NewCompound(handlers) ELSE hp[x]]
    IN  [hp0 EXCEPT ![c] = set_validate(hp0, c)]

(***************************************************************************)
(* validate, by the handler's class                                        *)
(***************************************************************************)
RECURSIVE validate(_, _, _)

\* The loop of TraitCompound.validate / slow_validate over validates[i..]:
\* the first branch that returns ends it, a TraitError moves on.
RECURSIVE try_validates(_, _, _, _)
try_validates(st, validates, i, value) ==
    IF i > Len(validates)
    THEN Error(st, value)
    ELSE LET r == validate(st, validates[i], value)
         IN  IF r.ok
             THEN [r EXCEPT !.via = validates[i]]
             ELSE try_validates(r.st, validates, i + 1, value)

\* A slow_validate that gives up without trying the slow branches.
slow_validate_none(st, c, value) == Error(st, value)

slow_validate(st, c, value) ==
    try_validates(st, st.heap[c].slow_validates, 1, value)

\* A validate that tries the slow branches before the fast ones.
TraitCompound_validate_slow_first(st, c, value) ==
    LET r == try_validates(st, st.heap[c].slow_validates, 1, value)
    IN  IF r.ok THEN r ELSE try_validates(r.st, st.heap[c].validates, 1, value)

TraitCompound_validate(st, c, value) ==
    LET r == try_validates(st, st.heap[c].validates, 1, value)
    IN  IF r.ok THEN r ELSE slow_validate(r.st, c, value)

(***************************************************************************)
(* TraitList, and the TraitListObject it returns                           *)
(***************************************************************************)
Max(a, b) == IF a >= b THEN a ELSE b

\* No item trait: trait_from(None) has no handler.
NoHandler == ""

\* TraitList(trait, minlen, maxlen, has_items); the item trait is that of the
\* handler item, in the heap hp.
TraitList(hp, item, minlen, maxlen, has_items) ==
    [kind |-> "List", item_trait |-> item,
     item_validate |-> IF item = NoHandler THEN Absent ELSE FastValidateOf(hp, item),
     minlen |-> Max(0, minlen), maxlen |-> Max(minlen, maxlen),
     has_items |-> has_items, fast_validate |-> Absent]

\* A list the caller holds is the heap object its value names; [] is none.
ListRef(id) == [t |-> "list", s |-> <<id>>]

ItemsOf(hp, value) == IF value.s = <<>> THEN <<>> ELSE hp[value.s[1]].items

\* The items validated by the item trait's handler, one after the other:
\* [ok, st, items], ok = FALSE at the first one that raises.
RECURSIVE validate_items(_, _, _, _, _)
validate_items(st, handler, items, i, out) ==
    IF i > Len(items)
    THEN [ok |-> TRUE, st |-> st, items |-> out]
    ELSE IF handler = NoHandler
    THEN validate_items(st, handler, items, i + 1, Append(out, items[i]))
    ELSE LET r == validate(st, handler, items[i])
         IN  IF r.ok
             THEN validate_items(r.st, handler, items, i + 1, Append(out, r.value))
             ELSE [ok |-> FALSE, st |-> r.st, items |-> out]

ListObjectRef(id) == [t |-> "TraitListObject", s |-> <<id>>]

\* TraitListObject(trait, object, name, value): the new object O holds the
\* validated items and knows its handler, owner and name; TraitError when the
\* length is out of bounds or an item is not valid.
TraitListObject(st, handler, object, name, value) ==
    LET items == ItemsOf(st.heap, value)
        r == validate_items(st, st.heap[handler].item_trait, items, 1, <<>>)
        new == [kind |-> "ListObject", trait |-> handler, object |-> object,
                name |-> name, items |-> r.items]
    IN  IF ~(st.heap[handler].minlen <= Len(items) /\ Len(items) <= st.heap[handler].maxlen)
        THEN Error(st, value)
        ELSE IF ~r.ok
        THEN Error(r.st, value)
        ELSE Return([r.st EXCEPT !.heap = [x \in DOMAIN r.st.heap \cup {"O"} |->
                                              IF x = "O" THEN new ELSE r.st.heap[x]]],
                    ListObjectRef("O"))

\* validate that lets a list one item longer than maxlen through.
TraitList_validate_off_by_one(st, h, value) ==
    IF value.t = "list" /\ st.heap[h].minlen <= Len(ItemsOf(st.heap, value))
                        /\ Len(ItemsOf(st.heap, value)) <= st.heap[h].maxlen + 1
    THEN LET r == validate_items(st, st.heap[h].item_trait, ItemsOf(st.heap, value), 1, <<>>)
         IN  IF r.ok
             THEN Return([r.st EXCEPT !.heap = [x \in DOMAIN r.st.heap \cup {"O"} |->
                             IF x = "O"
                             THEN [kind |-> "ListObject", trait |-> h, object |-> "object",
                                   name |-> "name", items |-> r.items]
                             ELSE r.st.heap[x]]],
                         ListObjectRef("O"))
             ELSE Error(r.st, value)
    ELSE Error(st, value)

TraitList_validate(st, h, value) ==
    IF value.t = "list" /\ st.heap[h].minlen <= Len(ItemsOf(st.heap, value))
                        /\ Len(ItemsOf(st.heap, value)) <= st.heap[h].maxlen
    THEN TraitListObject(st, h, "object", "name", value)
    ELSE Error(st, value)

(***************************************************************************)
(* TraitCoerceType                                                         *)
(***************************************************************************)
\* trait_base.CoercableTypes: per type, the fast_validate that lists the types
\* that may be coerced to it.
CoercableTypes ==
    [aType \in {"float", "complex"} |->
        IF aType = "float"
        THEN <<"coerce", "float", "int">>
        ELSE <<"coerce", "complex", "float", "int">>]

\* float(value) and complex(value) of an int or a float
Widen(aType, value) ==
    LET float == IF value.t = "int" THEN FloatV(value.s[1], "0") ELSE value
    IN  IF aType = "float" THEN float ELSE ComplexV(float, FloatV("0", "0"))

TraitCoerceType(aType) ==
    [kind |-> "Coerce", aType |-> aType,
     fast_validate |-> IF aType \in DOMAIN CoercableTypes
                       THEN CoercableTypes[aType]
                       ELSE <<"coerce", aType>>]

\* validate that takes the types listed for complex whatever its own type is.
TraitCoerceType_validate_listed(st, h, value) ==
    LET fv == st.heap[h].fast_validate
        tv == value.t
    IN  IF tv = fv[2]
        THEN Return(st, value)
        ELSE IF \E i \in 3..Len(CoercableTypes["complex"]) :
                    tv = CoercableTypes["complex"][i]
        THEN Return(st, IF fv[2] \in {"float", "complex"}
                        THEN Widen(fv[2], value) ELSE IntV(value.s[1]))
        ELSE Error(st, value)

TraitCoerceType_validate(st, h, value) ==
    LET fv == st.heap[h].fast_validate
        tv == value.t
    IN  IF tv = fv[2]
        THEN Return(st, value)
        ELSE IF \E i \in 3..Len(fv) : tv = fv[i]
        THEN Return(st, Widen(fv[2], value))
        ELSE Error(st, value)

(***************************************************************************)
(* TraitTuple                                                              *)
(***************************************************************************)
\* TraitTuple(*args): types holds the handlers of the traits of the slots.
TraitTuple(types) ==
    [kind |-> "Tuple", types |-> types, fast_validate |-> <<"tuple", types>>]

\* A tuple is the heap object its value names.
TupleRef(id) == [t |-> "tuple", s |-> <<id>>]

\* The loop of validate from slot i on: [ok, st, values], ok = FALSE when the
\* handler of a slot raises.
RECURSIVE validate_slots(_, _, _, _, _)
validate_slots(st, types, items, i, values) ==
    IF i > Len(types)
    THEN [ok |-> TRUE, st |-> st, values |-> values]
    ELSE LET r == validate(st, types[i], items[i])
         IN  IF r.ok
             THEN validate_slots(r.st, types, items, i + 1, Append(values, r.value))
             ELSE [ok |-> FALSE, st |-> r.st, values |-> values]

\* The heap with the tuple R = tuple(values) in it.
NewTuple(hp, values) ==
    [x \in DOMAIN hp \cup {"R"} |->
        IF x = "R" THEN [kind |-> "tuple", items |-> values] ELSE hp[x]]

\* validate that accepts a tuple longer than types and looks at its first items.
TraitTuple_validate_longer(st, h, value) ==
    IF value.t = "tuple" /\ Len(ItemsOf(st.heap, value)) >= Len(st.heap[h].types)
    THEN LET r == validate_slots(st, st.heap[h].types, ItemsOf(st.heap, value), 1, <<>>)
         IN  IF r.ok
             THEN Return([r.st EXCEPT !.heap = NewTuple(@, r.values)], TupleRef("R"))
             ELSE Error(r.st, value)
    ELSE Error(st, value)

TraitTuple_validate(st, h, value) ==
    IF value.t = "tuple" /\ Len(ItemsOf(st.heap, value)) = Len(st.heap[h].types)
    THEN LET r == validate_slots(st, st.heap[h].types, ItemsOf(st.heap, value), 1, <<>>)
         IN  IF r.ok
             THEN Return([r.st EXCEPT !.heap = NewTuple(@, r.values)], TupleRef("R"))
             ELSE Error(r.st, value)
    ELSE Error(st, value)

(***************************************************************************)
(* TraitDict, and clone of TraitList and TraitDict                         *)
(***************************************************************************)
\* The cells of the objects a call makes, in the order they are taken.
Cells == <<"n1", "n2", "n3">>

FreeCells(hp) == {i \in 1..Len(Cells) : Cells[i] \notin DOMAIN hp}

New(hp) == Cells[CHOOSE i \in FreeCells(hp) : \A j \in FreeCells(hp) : i <= j]

\* The heap hp with the object obj in the cell id.
With(hp, id, obj) == [x \in DOMAIN hp \cup {id} |-> IF x = id THEN obj ELSE hp[x]]

RECURSIVE clone(_, _)

\* TraitDict(key_trait, value_trait, has_items) for the new object self: the
\* heap after __init__.  The traits are those of the handlers key and value;
\* trait_from(None) is a trait whose handler has no items.
TraitDict(hp, self, key, value, has_items) ==
    LET made == With(hp, self, [kind |-> "Dict", key_trait |-> key,
                                value_trait |-> value, has_items |-> has_items,
                                value_handler |-> value, fast_validate |-> Absent])
    IN  IF value # NoHandler /\ HasItems(made, value)
        THEN LET c == clone(made, value)
             IN  [c.heap EXCEPT ![c.id].has_items = FALSE,
                                ![self].value_handler = c.id]
        ELSE made

\* clone that returns the handler itself.
TraitList_clone_self(hp, h) == [heap |-> hp, id |-> h]

\* TraitList.clone: [heap, id], id the cell of the new handler
TraitList_clone(hp, h) ==
    LET id == New(hp)
    IN  [heap |-> With(hp, id, TraitList(hp, hp[h].item_trait, hp[h].minlen,
                                         hp[h].maxlen, hp[h].has_items)),
         id |-> id]

\* TraitDict.clone
TraitDict_clone(hp, h) ==
    LET id == New(hp)
    IN  [heap |-> TraitDict(hp, id, hp[h].key_trait, hp[h].value_trait,
                            hp[h].has_items),
         id |-> id]

\* handler.clone()
clone(hp, h) ==
    IF hp[h].kind = "List" THEN TraitList_clone(hp, h) ELSE TraitDict_clone(hp, h)

\* A dict the caller holds is the heap object its value names; its items are
\* its pairs <<key, value>>.
DictRef(id) == [t |-> "dict", s |-> <<id>>]

\* The pairs validated, the key by the key trait's handler and the value by
\* value_handler: [ok, st, items], ok = FALSE at the first that raises.
RECURSIVE validate_pairs(_, _, _, _, _, _)
validate_pairs(st, key, handler, pairs, i, out) ==
    IF i > Len(pairs)
    THEN [ok |-> TRUE, st |-> st, items |-> out]
    ELSE LET k == IF key = NoHandler
                  THEN Return(st, pairs[i][1])
                  ELSE validate(st, key, pairs[i][1])
             v == IF handler = NoHandler
                  THEN Return(k.st, pairs[i][2])
                  ELSE validate(k.st, handler, pairs[i][2])
         IN  IF ~k.ok
             THEN [ok |-> FALSE, st |-> k.st, items |-> out]
             ELSE IF ~v.ok
             THEN [ok |-> FALSE, st |-> v.st, items |-> out]
             ELSE validate_pairs(v.st, key, handler, pairs, i + 1,
                                 Append(out, <<k.value, v.value>>))

DictObjectRef(id) == [t |-> "TraitDictObject", s |-> <<id>>]

\* TraitDictObject(trait, object, name, value): the new object DO holds the
\* validated pairs and knows its handler, owner and name; TraitError when a
\* key or a value is not valid.
TraitDictObject(st, handler, object, name, value) ==
    LET r == validate_pairs(st, st.heap[handler].key_trait,
                            st.heap[handler].value_handler,
                            st.heap[value.s[1]].items, 1, <<>>)
        new == [kind |-> "DictObject", trait |-> handler, object |-> object,
                name |-> name, items |-> r.items]
    IN  IF r.ok
        THEN Return([r.st EXCEPT !.heap = With(r.st.heap, "DO", new)],
                    DictObjectRef("DO"))
        ELSE Error(r.st, value)

TraitDict_validate(st, h, value) ==
    IF value.t = "dict"
    THEN TraitDictObject(st, h, "object", "name", value)
    ELSE Error(st, value)

validate(st, h, value) ==
    CASE st.heap[h].kind = "Enum" -> TraitEnum_validate(st, h, value)
      [] st.heap[h].kind = "Tuple" -> TraitTuple_validate(st, h, value)
      [] st.heap[h].kind = "Coerce" -> TraitCoerceType_validate(st, h, value)
      [] st.heap[h].kind = "List" -> TraitList_validate(st, h, value)
      [] st.heap[h].kind = "Dict" -> TraitDict_validate(st, h, value)
      [] st.heap[h].kind = "Cast" -> TraitCastType_validate(st, h, value)
      [] st.heap[h].kind = "Map" -> TraitMap_validate(st, h, value)
      [] st.heap[h].kind = "Instance" -> TraitInstance_validate(st, h, value)
      [] st.heap[h].kind = "PrefixList" -> TraitPrefixList_validate(st, h, value)
      [] st.heap[h].kind = "PrefixMap" -> TraitPrefixMap_validate(st, h, value)
      [] st.heap[h].kind = "Compound" -> TraitCompound_validate(st, h, value)

(***************************************************************************)
(* mapped_value and post_setattr, by the handler's class                   *)
(***************************************************************************)
RECURSIVE mapped_value(_, _, _)

\* The loop of TraitCompound.mapped_value over mapped_handlers[i..].
RECURSIVE try_mapped_values(_, _, _, _)
try_mapped_values(hp, mapped_handlers, i, value) ==
    IF i > Len(mapped_handlers)
    THEN [raised |-> FALSE, value |-> value]
    ELSE LET m == mapped_value(hp, mapped_handlers[i], value)
         IN  IF ~m.raised THEN m ELSE try_mapped_values(hp, mapped_handlers, i + 1, value)

TraitCompound_mapped_value(hp, c, value) ==
    try_mapped_values(hp, hp[c].mapped_handlers, 1, value)

mapped_value(hp, h, value) ==
    CASE hp[h].kind = "Compound" -> TraitCompound_mapped_value(hp, h, value)
      [] OTHER -> TraitMap_mapped_value(hp, h, value)

RECURSIVE post_setattr(_, _, _, _)

\* The loop of TraitCompound._post_setattr over post_setattrs[i..], then the
\* setattr of the raw value; writes and calls are those made so far.
RECURSIVE try_post_setattrs(_, _, _, _, _, _, _)

\* A loop that lacks the return after a hook that did not raise.
RECURSIVE try_post_setattrs_no_return(_, _, _, _, _, _, _)
try_post_setattrs_no_return(hp, post_setattrs, i, sh, value, writes, calls) ==
    IF i > Len(post_setattrs)
    THEN [raised |-> FALSE, shadow |-> value, writes |-> writes + 1, calls |-> calls]
    ELSE LET r == post_setattr(hp, post_setattrs[i], sh, value)
         IN  try_post_setattrs_no_return(hp, post_setattrs, i + 1, r.shadow, value,
                                         writes + r.writes,
                                         Append(calls, post_setattrs[i]))

try_post_setattrs(hp, post_setattrs, i, sh, value, writes, calls) ==
    IF i > Len(post_setattrs)
    THEN [raised |-> FALSE, shadow |-> value, writes |-> writes + 1, calls |-> calls]
    ELSE LET r == post_setattr(hp, post_setattrs[i], sh, value)
         IN  IF ~r.raised
             THEN [raised |-> FALSE, shadow |-> r.shadow,
                   writes |-> writes + r.writes,
                   calls |-> Append(calls, post_setattrs[i])]
             ELSE try_post_setattrs(hp, post_setattrs, i + 1, r.shadow, value,
                                    writes + r.writes,
                                    Append(calls, post_setattrs[i]))

TraitCompound_post_setattr(hp, c, sh, value) ==
    try_post_setattrs(hp, hp[c].post_setattrs, 1, sh, value, 0, <<>>)

post_setattr(hp, h, sh, value) ==
    CASE hp[h].kind = "Compound" -> TraitCompound_post_setattr(hp, h, sh, value)
      [] OTHER -> TraitMap_post_setattr(hp, h, sh, value)

(***************************************************************************)
(* The calls the program makes on a handler.  Each records itself in last: *)
(* ok is "returned" (not "raised"), result the value returned by validate  *)
(* or mapped_value, before the shadow attribute when the call began.       *)
(* follows says that a post_setattr was given the value the validate call  *)
(* just before it returned on the same handler (an assignment to the       *)
(* trait), and then via is the branch that validate returned through.      *)
(***************************************************************************)
NoCall ==
    [op |-> "none", h |-> "", value |-> NoneV, ok |-> TRUE, result |-> NoneV,
     via |-> NoVia, writes |-> 0, calls |-> <<>>, before |-> Unset, follows |-> FALSE,
     resolves |-> FALSE, failed |-> FALSE, events |-> 0, args |-> <<>>]

Store == [heap |-> heap, trait |-> trait, modules |-> modules]

\* The threads that call validate, and what one holds between two statements:
\* its position, the value it validates and the class find_class returned.
Callers == {"a", "b"}

Idle == [pc |-> "idle", value |-> NoneV, aClass |-> Class("None"), saw |-> {}]

NoCallers == [t \in Callers |-> Idle]

\* validate(value) of the TraitInstance h, which took the heap from hp to hp1,
\* went into resolve_class and found no class.
ResolveFailed(hp, hp1, h, value) ==
    /\ hp[h].kind = "Instance"
    /\ value # NoneV
    /\ hp[h].aClass.tag = "path"
    /\ hp1[h].aClass.tag = "path"

\* A call that took the heap from hp to hp1 resolved the class of a TraitInstance.
Resolves(hp, hp1) ==
    \E h \in DOMAIN hp :
        /\ hp[h].kind = "Instance"
        /\ hp[h].aClass.tag = "path"
        /\ hp1[h].aClass.tag = "class"

\* handler.validate(object, name, value)
Validate(h, value) ==
    LET r == validate(Store, h, value)
    IN  /\ heap' = r.st.heap
        /\ trait' = r.st.trait
        /\ modules' = r.st.modules
        /\ last' = [NoCall EXCEPT !.op = "validate", !.h = h, !.value = value,
                                  !.ok = r.ok, !.result = r.value, !.via = r.via,
                                  !.before = shadow,
                                  !.resolves = Resolves(heap, r.st.heap),
                                  !.failed = last.failed \/
                                             ResolveFailed(heap, r.st.heap, h, value)]
        /\ UNCHANGED <<shadow, built, callers>>

\* handler.post_setattr(object, name, value), for a handler that has one
PostSetattr(h, value) ==
    /\ HasPostSetattr(heap, h)
    /\ LET r == post_setattr(heap, h, shadow, value)
           follows == /\ last.op = "validate"
                      /\ last.h = h
                      /\ last.ok
                      /\ last.result = value
       IN  /\ shadow' = r.shadow
           /\ last' = [NoCall EXCEPT !.op = "post_setattr", !.h = h, !.value = value,
                                     !.ok = ~r.raised, !.result = r.shadow,
                                     !.via = IF follows THEN last.via ELSE NoVia,
                                     !.writes = r.writes, !.calls = r.calls,
                                     !.before = shadow, !.follows = follows]
    /\ UNCHANGED <<heap, trait, modules, built, callers>>

\* handler.mapped_value(value), for a mapped handler
MappedValue(h, value) ==
    /\ IsMapped(heap, h)
    /\ LET m == mapped_value(heap, h, value)
           follows == /\ last.op = "validate"
                      /\ last.h = h
                      /\ last.ok
                      /\ last.result = value
       IN  last' = [NoCall EXCEPT !.op = "mapped_value", !.h = h, !.value = value,
                                  !.ok = ~m.raised, !.result = m.value,
                                  !.via = IF follows THEN last.via ELSE NoVia,
                                  !.before = shadow, !.follows = follows]
    /\ UNCHANGED <<heap, shadow, trait, modules, built, callers>>

\* The branches of c that have a fast_validate now.
FastBranches(hp, c) ==
    {hp[c].handlers[i] : i \in {j \in 1..Len(hp[c].handlers) :
                                    FastValidateOf(hp, hp[c].handlers[j]) # Absent}}

\* compound.set_validate(), as __init__ calls it and as a caller may again
SetValidate(c) ==
    /\ heap[c].kind = "Compound"
    /\ heap' = [heap EXCEPT ![c] = set_validate(heap, c)]
    /\ built' = [built EXCEPT ![c] = FastBranches(heap, c)]
    /\ last' = [NoCall EXCEPT !.op = "set_validate", !.h = c, !.before = shadow]
    /\ UNCHANGED <<shadow, trait, modules, callers>>

(***************************************************************************)
(* Spec: a compound T declared for the owner's trait, its branches drawn   *)
(* from an enum, two maps, a cast, a string-referenced instance handler    *)
(* and a nested compound N.                                                *)
(***************************************************************************)
MaxBranches == 2

I_one == IntV("1")
I_zero == IntV("0")
I_two == IntV("2")

\* TraitMap({"yes": 1, "no": 0}) and TraitMap({"no": 2})
YesNoMap == [k \in {S_yes, S_no} |-> IF k = S_yes THEN I_one ELSE I_zero]
NoMap == [k \in {S_no} |-> I_two]

Leaves ==
    [E |-> TraitEnum(<<S_yes>>),
     M |-> TraitMap(YesNoMap),
     M2 |-> TraitMap(NoMap),
     K |-> TraitCastType("str"),
     I |-> TraitInstance(Path("mod", "C"), TRUE, "")]

NestedBranches == {<<"E">>, <<"I">>, <<"M", "I">>}

Branches == {"E", "M", "M2", "K", "I", "N"}

SeqsUpTo(S, n) == UNION {[1..k -> S] : k \in 0..n}

Candidates == {S_yes, S_no, NoneV, ObjC}

\* The state after the handlers were made and T declared for the owner's
\* trait: T = TraitCompound(handlers), N = TraitCompound(nested).
InitWith(handlers, nested) ==
    LET hpN == TraitCompound(Leaves, "N", nested)
        hpT == TraitCompound(hpN, "T", handlers)
    IN  /\ heap = hpT
        /\ built = [c \in {"N", "T"} |-> FastBranches(hpT, c)]
        /\ trait = [handler |-> "T", validate |-> hpT["T"].fast_validate]
        /\ shadow = Unset
        /\ modules = [loaded |-> {}, importable |-> {"mod"}]
        /\ last = NoCall
        /\ callers = NoCallers

Init ==
    \E nested \in NestedBranches, handlers \in SeqsUpTo(Branches, MaxBranches) :
        InitWith(handlers, nested)

Next ==
    \/ \E value \in Candidates : Validate("T", value)
    \/ \E value \in Candidates : PostSetattr("T", value)
    \/ \E value \in Candidates : MappedValue("T", value)
    \/ \E c \in {"T", "N"} : SetValidate(c)

Spec == Init /\ [][Next]_vars

(***************************************************************************)
(* Properties of TraitCompound.validate                                    *)
(***************************************************************************)
Least(S) == CHOOSE i \in S : \A j \in S : i <= j

\* The last call was validate on a compound.
CompoundValidated == last.op = "validate" /\ heap[last.h].kind = "Compound"

\* The branches of c in declaration order that had (had no) fast_validate when
\* c was last built.
FastAtBuild(c) ==
    LET HadFast(b) == b \in built[c] IN SelectSeq(heap[c].handlers, HadFast)
SlowAtBuild(c) ==
    LET HadNone(b) == b \notin built[c] IN SelectSeq(heap[c].handlers, HadNone)

\* Branch b's own validate returns for value / what it returns.
Accepts(b, value) == validate(Store, b, value).ok
ResultOf(b, value) == validate(Store, b, value).value

\* The positions of branches, a sequence of branches, that accept value.
Accepting(branches, value) ==
    {i \in 1..Len(branches) : Accepts(branches[i], value)}

\* C1: validate returns what the first accepting fast-path branch returns, in
\* declaration order; when no fast-path branch accepts, what the first accepting
\* slow branch returns; it raises exactly when every branch of both lists
\* rejects the value.
C1_FastThenSlow ==
    CompoundValidated =>
        LET order == FastAtBuild(last.h) \o SlowAtBuild(last.h)
            acc == Accepting(order, last.value)
        IN  IF acc = {}
            THEN ~last.ok
            ELSE /\ last.ok
                 /\ last.via = order[Least(acc)]
                 /\ last.result = ResultOf(order[Least(acc)], last.value)

\* Every fast-path branch rejected the value and a slow branch returned it.
C1_Witness ==
    /\ CompoundValidated
    /\ last.ok
    /\ FastAtBuild(last.h) # <<>>
    /\ last.via \notin built[last.h]

\* Every branch of both lists rejected the value and validate raised.
C1_WitnessRaise ==
    /\ CompoundValidated
    /\ ~last.ok
    /\ FastAtBuild(last.h) # <<>>
    /\ SlowAtBuild(last.h) # <<>>

\* C2 as stated: validate returns what the earliest accepting branch in
\* declaration order returns, fast-path or slow.
C2_DeclarationOrder ==
    CompoundValidated =>
        LET acc == Accepting(heap[last.h].handlers, last.value)
        IN  acc # {} =>
               /\ last.ok
               /\ last.via = heap[last.h].handlers[Least(acc)]
               /\ last.result = ResultOf(heap[last.h].handlers[Least(acc)], last.value)

\* C2, amended: validate returns what the earliest accepting branch in
\* declaration order returns, unless that branch is slow-only and a fast-path
\* branch accepts the value too: then the earliest accepting fast-path branch
\* wins.
C2_FirstMatchPerPath ==
    CompoundValidated =>
        LET handlers == heap[last.h].handlers
            acc == Accepting(handlers, last.value)
            fast == {i \in acc : handlers[i] \in built[last.h]}
            first == IF handlers[Least(acc)] \in built[last.h] \/ fast = {}
                     THEN Least(acc)
                     ELSE Least(fast)
        IN  acc # {} =>
               /\ last.ok
               /\ last.via = handlers[first]
               /\ last.result = ResultOf(handlers[first], last.value)

\* Two branches accept the value and the one declared first returned it.
C2_Witness ==
    /\ CompoundValidated
    /\ last.ok
    /\ Cardinality(Accepting(heap[last.h].handlers, last.value)) > 1
    /\ last.via = heap[last.h].handlers[Least(Accepting(heap[last.h].handlers, last.value))]
    /\ \E i \in Accepting(heap[last.h].handlers, last.value) :
          ResultOf(heap[last.h].handlers[i], last.value) # last.result

(***************************************************************************)
(* Properties of TraitCompound.set_validate and of the merged post_setattr *)
(***************************************************************************)
\* The branches of c, a set.
BranchSet(c) == {heap[c].handlers[i] : i \in 1..Len(heap[c].handlers)}

\* The compound c was just constructed or rebuilt by set_validate.
JustBuilt(c) ==
    /\ c \in DOMAIN heap
    /\ heap[c].kind = "Compound"
    /\ last.op = "none" \/ (last.op = "set_validate" /\ last.h = c)

\* C3: after construction and after every set_validate, is_mapped is true iff
\* at least one branch is mapped, and reversable is true iff every branch is.
C3_MappedAggregates ==
    \A c \in {"T", "N"} :
        JustBuilt(c) =>
            /\ heap[c].is_mapped <=> \E b \in BranchSet(c) : IsMapped(heap, b)
            /\ heap[c].reversable <=> \A b \in BranchSet(c) : IsMapped(heap, b)

\* A rebuilt compound of a map and a handler that is not mapped: is_mapped and
\* not reversable.
C3_Witness ==
    /\ last.op = "set_validate"
    /\ last.h = "T"
    /\ \E b \in BranchSet("T") : heap[b].kind = "Map"
    /\ \E b \in BranchSet("T") : heap[b].kind = "Enum"
    /\ heap["T"].is_mapped
    /\ ~heap["T"].reversable

\* The last call was post_setattr on a compound.
CompoundPostSet == last.op = "post_setattr" /\ heap[last.h].kind = "Compound"

\* The branches of c that have a post_setattr, in declaration order.
Hooks(c) ==
    LET Has(b) == HasPostSetattr(heap, b) IN SelectSeq(heap[c].handlers, Has)

\* Branch b's post_setattr raises "Unmappable" for value.
Unmappable(b, value) == post_setattr(heap, b, last.before, value).raised

\* C4: the compound's post_setattr calls the branches' hooks in declaration
\* order up to and including the first that does not raise "Unmappable", whose
\* write is the shadow attribute; when all raise, the raw value is written.  It
\* never raises, and exactly one setattr is made.
C4_PostSetattrDispatch ==
    CompoundPostSet =>
        LET hooks == Hooks(last.h)
            stop == {i \in 1..Len(hooks) : ~Unmappable(hooks[i], last.value)}
        IN  /\ last.ok
            /\ last.writes = 1
            /\ IF stop = {}
               THEN /\ last.calls = hooks
                    /\ shadow = last.value
               ELSE /\ last.calls = SubSeq(hooks, 1, Least(stop))
                    /\ shadow = post_setattr(heap, hooks[Least(stop)], last.before,
                                             last.value).shadow

\* A first hook raised "Unmappable" and a later hook of the compound wrote the
\* mapped value.
C4_Witness ==
    /\ CompoundPostSet
    /\ Len(last.calls) > 1
    /\ Unmappable(last.calls[1], last.value)
    /\ ~Unmappable(last.calls[Len(last.calls)], last.value)
    /\ shadow # last.value

\* Every hook raised "Unmappable" and the raw value was written.
C4_WitnessFallback ==
    /\ CompoundPostSet
    /\ Len(last.calls) > 0
    /\ \A i \in 1..Len(last.calls) : Unmappable(last.calls[i], last.value)
    /\ shadow = last.value

\* C5 as stated: in a mapped compound, a value that validate returned through a
\* branch that is not mapped is its own mapped value: the post_setattr that
\* follows leaves it in the shadow attribute, and mapped_value returns it.
C5_IdentityMapping ==
    /\ last.follows
    /\ heap[last.h].kind = "Compound"
    /\ heap[last.h].is_mapped
    /\ ~IsMapped(heap, last.via)
    => /\ last.op = "post_setattr" => shadow = last.value
       /\ last.op = "mapped_value" => last.result = last.value

(***************************************************************************)
(* SpecMap: the maps M and M2 called directly, and through a compound T    *)
(* of them.                                                                *)
(***************************************************************************)
MapCandidates == {S_yes, S_no, NoneV, L_empty}

InitMap ==
    \E handlers \in SeqsUpTo({"M", "M2"}, MaxBranches) : InitWith(handlers, <<"E">>)

NextMap ==
    \/ \E h \in {"T", "M", "M2"}, value \in MapCandidates : Validate(h, value)
    \/ \E h \in {"T", "M", "M2"}, value \in MapCandidates : PostSetattr(h, value)
    \/ \E h \in {"T", "M", "M2"}, value \in MapCandidates : MappedValue(h, value)

SpecMap == InitMap /\ [][NextMap]_vars

\* The last call was op on a TraitMap.
MapCall(op) == last.op = op /\ heap[last.h].kind = "Map"

\* C6: TraitMap.validate returns exactly for the keys of the map, and returns
\* the key itself; post_setattr of a key leaves map[key] in the shadow
\* attribute.
C6_MapShadow ==
    /\ MapCall("validate") =>
          /\ last.ok <=> last.value \in DOMAIN heap[last.h].map
          /\ last.ok => last.result = last.value
    /\ MapCall("post_setattr") /\ last.value \in DOMAIN heap[last.h].map =>
          /\ last.ok
          /\ shadow = heap[last.h].map[last.value]

\* "yes" was assigned to a trait of TraitMap({"yes": 1, "no": 0}): the shadow
\* attribute is 1.
C6_Witness ==
    /\ MapCall("post_setattr")
    /\ last.follows
    /\ last.value = S_yes
    /\ shadow = I_one

\* C7: TraitMap.post_setattr of a value that is no key raises "Unmappable" and
\* leaves the shadow attribute as it was; a compound whose hook raised it calls
\* the next branch's hook.
C7_Unmappable ==
    /\ MapCall("post_setattr") /\ last.value \notin DOMAIN heap[last.h].map =>
          /\ ~last.ok
          /\ last.writes = 0
          /\ shadow = last.before
    /\ CompoundPostSet =>
          \A i \in 1..(Len(Hooks(last.h)) - 1) :
              (\A j \in 1..i : /\ heap[Hooks(last.h)[j]].kind = "Map"
                               /\ last.value \notin DOMAIN heap[Hooks(last.h)[j]].map)
              => /\ Len(last.calls) > i
                 /\ last.calls[i + 1] = Hooks(last.h)[i + 1]

\* The first hook of a compound was a map without the value, and the second
\* hook was called.
C7_Witness ==
    /\ CompoundPostSet
    /\ Len(last.calls) = 2
    /\ heap[last.calls[1]].kind = "Map"
    /\ last.value \notin DOMAIN heap[last.calls[1]].map

\* A map's post_setattr raised with the shadow attribute already set.
C7_WitnessLeaf ==
    /\ MapCall("post_setattr")
    /\ ~last.ok
    /\ last.before # Unset

(***************************************************************************)
(* SpecPrefix: one prefix handler P, a TraitPrefixList or a TraitPrefixMap *)
(* over up to MaxValues of the words "yes", "no", "yep", "ye", validated   *)
(* while its value set grows.  SpecPrefixFixed: the same handler with the  *)
(* value set it was constructed with.                                      *)
(***************************************************************************)
MaxValues == 2

S_empty == Str(<<>>)
S_y == Str(<<"y">>)
S_ye == Str(<<"y", "e">>)
S_yep == Str(<<"y", "e", "p">>)
S_n == Str(<<"n">>)
S_x == Str(<<"x">>)

Words == {S_yes, S_no, S_yep, S_ye}

PrefixCandidates == {S_empty, S_y, S_ye, S_yes, S_yep, S_n, S_no, S_x, NoneV}

Range(seq) == {seq[i] : i \in 1..Len(seq)}

Injective(seq) == \A i, j \in 1..Len(seq) : seq[i] = seq[j] => i = j

\* The dict a TraitPrefixMap is given: "no" maps to 0, any other key to 1.
DictOf(keys) == [k \in Range(keys) |-> IF k = S_no THEN I_zero ELSE I_one]

InitPrefix ==
    /\ \E values \in SeqsUpTo(Words, MaxValues) :
          \/ heap = [P |-> TraitPrefixList(values)]
          \/ /\ Injective(values)
             /\ heap = [P |-> TraitPrefixMap(values, DictOf(values))]
    /\ trait = [handler |-> "P", validate |-> <<"prefix_map">>]
    /\ built = <<>>
    /\ shadow = Unset
    /\ modules = [loaded |-> {}, importable |-> {"mod"}]
    /\ last = NoCall
    /\ callers = NoCallers

\* The caller adds an entry to the dict it gave TraitPrefixMap, which holds the
\* dict itself (self.map = map).
AddKey(h, key) ==
    /\ heap[h].kind = "PrefixMap"
    /\ Len(heap[h].keys) < MaxValues
    /\ key \notin Range(heap[h].keys)
    /\ heap' = [heap EXCEPT ![h].keys = Append(@, key),
                            ![h].map = DictOf(Append(heap[h].keys, key))]
    /\ last' = [NoCall EXCEPT !.op = "add", !.h = h, !.value = key]
    /\ UNCHANGED <<shadow, trait, modules, built, callers>>

\* The caller appends a value to the values list of a TraitPrefixList.
AddValue(h, word) ==
    /\ heap[h].kind = "PrefixList"
    /\ Len(heap[h].values) < MaxValues
    /\ heap' = [heap EXCEPT ![h].values = Append(@, word)]
    /\ last' = [NoCall EXCEPT !.op = "add", !.h = h, !.value = word]
    /\ UNCHANGED <<shadow, trait, modules, built, callers>>

NextPrefix ==
    \/ \E value \in PrefixCandidates : Validate("P", value)
    \/ \E word \in Words : AddValue("P", word)
    \/ \E key \in Words : AddKey("P", key)

SpecPrefix == InitPrefix /\ [][NextPrefix]_vars

NextPrefixFixed == \E value \in PrefixCandidates : Validate("P", value)

SpecPrefixFixed == InitPrefix /\ [][NextPrefixFixed]_vars

(***************************************************************************)
(* Properties of the prefix handlers                                       *)
(***************************************************************************)
\* The last call was validate on a prefix handler.
PrefixValidated ==
    last.op = "validate" /\ heap[last.h].kind \in {"PrefixList", "PrefixMap"}

\* The full strings of prefix handler h, in order.
FullStrings(h) ==
    IF heap[h].kind = "PrefixList" THEN heap[h].values ELSE heap[h].keys

\* value is a string and a prefix of key.
IsPrefix(value, key) ==
    /\ value.t = "str"
    /\ Len(value.s) <= Len(key.s)
    /\ \A i \in 1..Len(value.s) : value.s[i] = key.s[i]

\* The entries of the value set of h that value is a prefix of.
Prefixed(h, value) ==
    {i \in 1..Len(FullStrings(h)) : IsPrefix(value, FullStrings(h)[i])}

\* C8 as stated: validate accepts a candidate iff it is a string that is a
\* prefix of exactly one entry of the value set, and returns that entry.
C8_UniquePrefixOnly ==
    PrefixValidated =>
        /\ last.ok <=> Cardinality(Prefixed(last.h, last.value)) = 1
        /\ last.ok => last.result \in {FullStrings(last.h)[i] :
                                          i \in Prefixed(last.h, last.value)}

\* C8, amended: on a handler with the value set it was constructed with,
\* validate accepts a candidate iff it is one of the full strings, which it
\* returns unchanged whatever else it is a prefix of, or a string that is a
\* prefix of exactly one entry of the value set, and then returns that entry.
C8_MemberOrUniquePrefix ==
    PrefixValidated =>
        LET keys == FullStrings(last.h)
            hit == Prefixed(last.h, last.value)
        IN  IF last.value \in Range(keys)
            THEN last.ok /\ last.result = last.value
            ELSE IF Cardinality(hit) = 1
            THEN last.ok /\ last.result = keys[Least(hit)]
            ELSE ~last.ok

\* A proper prefix of exactly one full string was resolved to it.
C8_Witness ==
    /\ PrefixValidated
    /\ last.ok
    /\ last.result # last.value
    /\ Cardinality(Prefixed(last.h, last.value)) = 1

\* A full string that is a prefix of another full string was accepted.
C8_WitnessMember ==
    /\ PrefixValidated
    /\ last.ok
    /\ last.result = last.value
    /\ Cardinality(Prefixed(last.h, last.value)) > 1

\* A string that is a prefix of two full strings, and none itself, was rejected.
C8_WitnessAmbiguous ==
    /\ PrefixValidated
    /\ ~last.ok
    /\ Cardinality(Prefixed(last.h, last.value)) > 1

\* The distinct full strings of h that value is a prefix of.
PrefixedStrings(h, value) == {FullStrings(h)[i] : i \in Prefixed(h, value)}

\* C9: whatever was validated and added before, validate rejects a candidate
\* (not itself a full string) that is a prefix of more than one string of the
\* value set as it is now.
C9_NoStaleResolution ==
    /\ PrefixValidated
    /\ last.value \notin Range(FullStrings(last.h))
    /\ Cardinality(PrefixedStrings(last.h, last.value)) > 1
    => ~last.ok

(***************************************************************************)
(* SpecInstance: a trait whose handler I is a TraitInstance constructed    *)
(* from a class path, validated while modules get installed and imported   *)
(* and None gets allowed.                                                  *)
(***************************************************************************)
Modules == {"mod", "builtins"}

\* [path, module]: the class path and the module argument of the handler.
InstancePaths ==
    {[path |-> Path("mod", "C"), module |-> ""],
     [path |-> Path("builtins", "int"), module |-> ""],
     [path |-> Path("", "C"), module |-> "mod"],
     [path |-> Path("mod", "D"), module |-> ""]}

InstanceCandidates == {NoneV, ObjC, I_one, S_yes}

InitInstance ==
    /\ \E p \in InstancePaths, none \in BOOLEAN :
          heap = [I |-> TraitInstance(p.path, none, p.module)]
    /\ \E importable \in SUBSET Modules :
          /\ "builtins" \in importable
          /\ modules = [loaded |-> {"builtins"}, importable |-> importable]
    /\ trait = [handler |-> "I", validate |-> Absent]
    /\ built = <<>>
    /\ shadow = Unset
    /\ last = NoCall
    /\ callers = NoCallers

\* handler.allow_none()
AllowNone(h) ==
    /\ heap[h].kind = "Instance"
    /\ heap' = [heap EXCEPT ![h] = allow_none(@)]
    /\ last' = [NoCall EXCEPT !.op = "allow_none", !.h = h, !.failed = last.failed]
    /\ UNCHANGED <<shadow, trait, modules, built, callers>>

\* A module becomes importable.
Install(m) ==
    /\ m \notin modules.importable
    /\ modules' = [modules EXCEPT !.importable = @ \cup {m}]
    /\ last' = [NoCall EXCEPT !.op = "install", !.failed = last.failed]
    /\ UNCHANGED <<heap, shadow, trait, built, callers>>

\* Some other code imports a module: it is in sys.modules from then on.
Import(m) ==
    /\ m \in modules.importable
    /\ m \notin modules.loaded
    /\ modules' = [modules EXCEPT !.loaded = @ \cup {m}]
    /\ last' = [NoCall EXCEPT !.op = "import", !.failed = last.failed]
    /\ UNCHANGED <<heap, shadow, trait, built, callers>>

NextInstance ==
    \/ \E value \in InstanceCandidates : Validate("I", value)
    \/ AllowNone("I")
    \/ \E m \in Modules : Install(m)
    \/ \E m \in Modules : Import(m)

SpecInstance == InitInstance /\ [][NextInstance]_vars

(***************************************************************************)
(* Properties of TraitInstance                                             *)
(***************************************************************************)
Instances == {h \in DOMAIN heap : heap[h].kind = "Instance"}

Resolved(h) == heap[h].aClass.tag = "class"

\* C10: a TraitInstance that still holds its class path has no fast_validate,
\* and one that has resolved it has the fast_validate of a TraitInstance
\* constructed with the resolved class and the same allow_none.
C10_ResolvedDescriptor ==
    \A h \in Instances :
        IF Resolved(h)
        THEN heap[h].fast_validate =
                 TraitInstance(heap[h].aClass, heap[h]._allow_none,
                               heap[h].module).fast_validate
        ELSE heap[h].fast_validate = Absent

\* A validate call has just resolved the class of I.
C10_Witness ==
    /\ last.op = "validate"
    /\ last.h = "I"
    /\ last.ok
    /\ last.value # NoneV
    /\ Resolved("I")
    /\ heap["I"].fast_validate # Absent

\* None was allowed on I after its class was resolved.
C10_WitnessAllowNone ==
    /\ last.op = "allow_none"
    /\ Resolved("I")
    /\ heap["I"].fast_validate[2] = "None"

\* A validate call failed to resolve the class, and I has no descriptor.
C10_WitnessUnresolved ==
    /\ last.op = "validate"
    /\ ~last.ok
    /\ last.value # NoneV
    /\ ~Resolved("I")

\* C11: once I holds a class it holds that class for good, a validate call on
\* the resolved I changes neither I, the trait nor sys.modules (it resolves
\* nothing), and validating the same value twice in a row leaves I as the
\* first call left it.
C11_ResolvedForGood ==
    [][/\ Resolved("I") =>
             /\ heap'["I"].aClass = heap["I"].aClass
             /\ last'.op = "validate" =>
                   /\ ~last'.resolves
                   /\ heap' = heap
                   /\ trait' = trait
                   /\ modules' = modules
       /\ (/\ last.op = "validate"
           /\ last'.op = "validate"
           /\ last'.value = last.value) => heap' = heap]_vars

\* A validate call on I found the class resolved by an earlier call.
C11_Witness ==
    /\ last.op = "validate"
    /\ last.h = "I"
    /\ last.value # NoneV
    /\ Resolved("I")
    /\ ~last.resolves

\* The class the path of h names can be found: its module defines it and is
\* in sys.modules, or can be imported when the path names the module.
Resolvable(h) ==
    LET col == heap[h].aClass.module # ""
        module == IF col THEN heap[h].aClass.module ELSE heap[h].module
    IN  /\ <<module, heap[h].aClass.name>> \in ModuleClasses
        /\ \/ module \in modules.loaded
           \/ col /\ module \in modules.importable

\* The step is a validate call of a value other than None on I holding a path.
ValidateUnresolved ==
    /\ ~Resolved("I")
    /\ last'.op = "validate"
    /\ last'.h = "I"
    /\ last'.value # NoneV

\* C12: validate of a value other than None on I whose class cannot be found
\* raises and leaves I and the trait as they were; whatever failed before,
\* validate on I whose class can be found resolves it.
C12_FailureNotCached ==
    [][ValidateUnresolved =>
          IF Resolvable("I")
          THEN /\ Resolved("I")'
               /\ last'.resolves
               /\ last'.ok <=> IsInstance(last'.value, heap'["I"].aClass)
          ELSE /\ ~last'.ok
               /\ heap' = heap
               /\ trait' = trait]_vars

\* A validate call on I has just failed to find the class.
C12_Witness ==
    /\ last.op = "validate"
    /\ last.h = "I"
    /\ ~last.ok
    /\ last.value # NoneV
    /\ ~Resolved("I")
    /\ last.failed
    /\ heap["I"].fast_validate = Absent
    /\ trait.validate = Absent

\* A validate call on I resolved the class after an earlier one had failed to.
C12_WitnessRetry ==
    /\ last.op = "validate"
    /\ last.failed
    /\ last.resolves
    /\ last.ok

(***************************************************************************)
(* SpecThreads: the callers of Callers validate against the one            *)
(* TraitInstance I at the same time.  A step is one statement of validate  *)
(* and resolve_class; nothing in them holds a lock.                        *)
(***************************************************************************)
Finish(t, value, ok) ==
    /\ callers' = [callers EXCEPT ![t].pc = "idle"]
    /\ last' = [NoCall EXCEPT !.op = "validate", !.h = "I", !.value = value,
                              !.ok = ok, !.result = IF ok THEN value ELSE NoneV]

\* validate is entered and reads the handler: None is settled at once, a path
\* sends the caller to resolve_class, a class to the isinstance test.
Call(t, value) ==
    /\ callers[t].pc = "idle"
    /\ IF value = NoneV
       THEN /\ Finish(t, value, heap["I"]._allow_none)
            /\ UNCHANGED <<heap, shadow, trait, modules, built>>
       ELSE /\ callers' = [callers EXCEPT
                   ![t] = [pc |-> IF heap["I"].aClass.tag = "path"
                                  THEN "resolve" ELSE "check",
                           value |-> value,
                           aClass |-> Class("None"),
                           saw |-> {heap["I"]}]]
            /\ UNCHANGED <<heap, shadow, trait, modules, built, last>>

\* aClass = self.validate_class(self.find_class(self.aClass)), and the error
\* when it is None
Find(t) ==
    /\ callers[t].pc = "resolve"
    /\ LET f == validate_class(find_class(heap["I"], modules))
       IN  /\ modules' = f.modules
           /\ IF f.found
              THEN /\ callers' = [callers EXCEPT ![t].pc = "found",
                                                 ![t].aClass = f.class]
                   /\ UNCHANGED last
              ELSE Finish(t, callers[t].value, FALSE)
    /\ UNCHANGED <<heap, shadow, trait, built>>

\* self.aClass = aClass
StoreClass(t) ==
    /\ callers[t].pc = "found"
    /\ heap' = [heap EXCEPT !["I"].aClass = callers[t].aClass]
    /\ callers' = [callers EXCEPT ![t].pc = "stored"]
    /\ UNCHANGED <<shadow, trait, modules, built, last>>

\* self.set_fast_validate()
SetFastValidate(t) ==
    /\ callers[t].pc = "stored"
    /\ heap' = [heap EXCEPT !["I"] = set_fast_validate(@)]
    /\ callers' = [callers EXCEPT ![t].pc = "patch"]
    /\ UNCHANGED <<shadow, trait, modules, built, last>>

\* trait.set_validate(self.fast_validate)
Patch(t) ==
    /\ callers[t].pc = "patch"
    /\ trait' = [trait EXCEPT !.validate = heap["I"].fast_validate]
    /\ callers' = [callers EXCEPT ![t].pc = "check"]
    /\ UNCHANGED <<heap, shadow, modules, built, last>>

\* isinstance(value, self.aClass): return or error
Check(t) ==
    /\ callers[t].pc = "check"
    /\ Finish(t, callers[t].value, IsInstance(callers[t].value, heap["I"].aClass))
    /\ UNCHANGED <<heap, shadow, trait, modules, built>>

NextThreads ==
    \/ \E t \in Callers, value \in InstanceCandidates : Call(t, value)
    \/ \E t \in Callers : Find(t)
    \/ \E t \in Callers : StoreClass(t)
    \/ \E t \in Callers : SetFastValidate(t)
    \/ \E t \in Callers : Patch(t)
    \/ \E t \in Callers : Check(t)

SpecThreads == InitInstance /\ [][NextThreads]_vars

\* C13: a caller that enters validate on the shared I and finds its class
\* resolved finds, in the same look, the fast_validate of a TraitInstance
\* constructed with that class and allow_none: never none, never another.
C13_AtomicPublish ==
    \A t \in Callers : \A o \in callers[t].saw :
        o.aClass.tag = "class" =>
            o.fast_validate =
                TraitInstance(o.aClass, o._allow_none, o.module).fast_validate

(***************************************************************************)
(* SpecNested: compounds nested up to MaxDepth deep, T outermost, each one *)
(* made of an enum, a string-referenced instance handler and, but for the  *)
(* innermost, the compound of the next level.                              *)
(***************************************************************************)
MaxDepth == 3

\* The compounds, outermost first.
Levels == <<"T", "N", "D", "D2", "D3">>

\* The branches of a compound; "*" stands for the compound of the next level.
InnerShapes == {<<"E", "*">>, <<"*", "I">>, <<"*">>}
LeafShapes == {<<"E">>, <<"I">>, <<"I", "E">>}

Fill(shape, child) == [i \in 1..Len(shape) |-> IF shape[i] = "*" THEN child ELSE shape[i]]

\* The heap after the compounds of levels k..depth were constructed, innermost
\* first.
RECURSIVE Nest(_, _, _)
Nest(shapes, k, depth) ==
    IF k = depth
    THEN TraitCompound(Leaves, Levels[k], shapes[k])
    ELSE TraitCompound(Nest(shapes, k + 1, depth), Levels[k],
                       Fill(shapes[k], Levels[k + 1]))

NestedCandidates == {S_yes, ObjC, NoneV}

InitNested ==
    \E depth \in 1..MaxDepth :
        \E shapes \in [1..depth -> InnerShapes \cup LeafShapes] :
            /\ \A k \in 1..depth : shapes[k] \in LeafShapes <=> k = depth
            /\ heap = Nest(shapes, 1, depth)
            /\ built = [c \in {Levels[k] : k \in 1..depth} |->
                           FastBranches(Nest(shapes, 1, depth), c)]
            /\ trait = [handler |-> "T",
                        validate |-> Nest(shapes, 1, depth)["T"].fast_validate]
            /\ shadow = Unset
            /\ modules = [loaded |-> {}, importable |-> {"mod"}]
            /\ last = NoCall
            /\ callers = NoCallers

\* set_validate() of the compound of level k
SetValidateAt(k) ==
    /\ Levels[k] \in DOMAIN heap
    /\ SetValidate(Levels[k])

NextNested ==
    \/ \E value \in NestedCandidates : Validate("T", value)
    \/ \E k \in 1..MaxDepth : SetValidateAt(k)

SpecNested == InitNested /\ [][NextNested]_vars

(***************************************************************************)
(* Properties of the merged fast_validate                                  *)
(***************************************************************************)
Compounds == {c \in DOMAIN heap : heap[c].kind = "Compound"}

\* What branch b brings to the list of its compound.
Brings(b) ==
    LET fv == heap[b].fast_validate
    IN  IF fv = Absent THEN <<>> ELSE IF fv[1] = "complex" THEN fv[2] ELSE <<fv>>

RECURSIVE Concatenated(_, _)
Concatenated(handlers, i) ==
    IF i > Len(handlers) THEN <<>> ELSE Brings(handlers[i]) \o Concatenated(handlers, i + 1)

\* The sentinel that sends the fast layer to the slow branches of c.
Sentinel(c) == <<"slow", c>>

SlowBranches(c) == {b \in BranchSet(c) : heap[b].fast_validate = Absent}

\* C14: the list of a compound's fast_validate never holds a compound's
\* descriptor, and when the compound was just built it is the concatenation,
\* in declaration order, of its branches' descriptors, a compound branch
\* bringing its list, followed only by the compound's own sentinel if any; a
\* compound whose branches bring nothing has no fast_validate.
C14_FlatDescriptor ==
    \A c \in Compounds :
        LET fv == heap[c].fast_validate
            parts == Concatenated(heap[c].handlers, 1)
        IN  /\ fv # Absent =>
                  /\ fv[1] = "complex"
                  /\ \A i \in 1..Len(fv[2]) : fv[2][i][1] # "complex"
            /\ JustBuilt(c) =>
                  IF parts = <<>>
                  THEN fv = Absent
                  ELSE fv # Absent /\ fv[2] \in {parts, Append(parts, Sentinel(c))}

\* T was rebuilt with the lists of two levels of compounds below it in its own.
C14_Witness ==
    /\ last.op = "set_validate"
    /\ last.h = "T"
    /\ "D" \in Compounds
    /\ heap["D"].fast_validate # Absent
    /\ heap["N"].fast_validate # Absent
    /\ Len(heap["T"].fast_validate[2]) >= 3

\* The places of the list of c that hold a sentinel, and those that hold its own.
Sentinels(c) ==
    {i \in 1..Len(heap[c].fast_validate[2]) : heap[c].fast_validate[2][i][1] = "slow"}

OwnSentinels(c) ==
    {i \in 1..Len(heap[c].fast_validate[2]) : heap[c].fast_validate[2][i] = Sentinel(c)}

\* C15 as stated: a just built compound with a fast_validate and a slow branch
\* has its own sentinel last in its list and no other sentinel anywhere in it;
\* one without a slow branch has not appended its sentinel.
C15_OneSentinel ==
    \A c \in Compounds :
        JustBuilt(c) /\ heap[c].fast_validate # Absent =>
            LET list == heap[c].fast_validate[2]
            IN  IF SlowBranches(c) # {}
                THEN /\ list[Len(list)] = Sentinel(c)
                     /\ Cardinality(Sentinels(c)) = 1
                ELSE OwnSentinels(c) = {}

\* C15, amended: a just built compound with a fast_validate and a slow branch
\* has its own sentinel last in its list and nowhere else in it; one without a
\* slow branch has not appended its sentinel; any other sentinel in the list is
\* one a compound branch brought with its own list.
C15_OwnSentinelOnce ==
    \A c \in Compounds :
        JustBuilt(c) /\ heap[c].fast_validate # Absent =>
            LET list == heap[c].fast_validate[2]
            IN  /\ IF SlowBranches(c) # {}
                   THEN /\ list[Len(list)] = Sentinel(c)
                        /\ OwnSentinels(c) = {Len(list)}
                   ELSE OwnSentinels(c) = {}
                /\ \A i \in Sentinels(c) \ OwnSentinels(c) :
                       \E b \in BranchSet(c) :
                           /\ heap[b].kind = "Compound"
                           /\ heap[b].fast_validate # Absent
                           /\ \E j \in 1..Len(heap[b].fast_validate[2]) :
                                  heap[b].fast_validate[2][j] = list[i]

\* T was built with a slow branch of its own and the sentinel of N in its list.
C15_Witness ==
    /\ JustBuilt("T")
    /\ SlowBranches("T") # {}
    /\ heap["T"].fast_validate # Absent
    /\ Cardinality(Sentinels("T")) > 1
    /\ OwnSentinels("T") = {Len(heap["T"].fast_validate[2])}

\* T was built without a slow branch and has no sentinel of its own.
C15_WitnessNone ==
    /\ JustBuilt("T")
    /\ SlowBranches("T") = {}
    /\ heap["T"].fast_validate # Absent
    /\ Len(heap["T"].handlers) > 1

(***************************************************************************)
(* SpecList: the trait's handler L is a TraitList of at most MaxLen items, *)
(* with the enum E for its items or no item trait; the caller holds the    *)
(* list A, validates it and other values, and changes the TraitListObject  *)
(* O that validate returned.                                               *)
(***************************************************************************)
MaxLen == 2

Items == {S_yes, S_no}

\* The lists a caller may hold: one item longer than L allows, at most.
CallerLists == SeqsUpTo(Items, MaxLen + 1)

ListCandidates == {ListRef("A"), L_empty, S_yes, NoneV}

InitList ==
    \E items \in CallerLists, item \in {"E", NoHandler}, minlen \in {0, 1} :
        LET hp == [x \in {"E", "A"} |->
                      IF x = "E" THEN Leaves["E"] ELSE [kind |-> "list", items |-> items]]
        IN  /\ heap = [x \in {"E", "A", "L"} |->
                          IF x = "L" THEN TraitList(hp, item, minlen, MaxLen, TRUE)
                          ELSE hp[x]]
            /\ trait = [handler |-> "L", validate |-> Absent]
            /\ built = <<>>
            /\ shadow = Unset
            /\ modules = [loaded |-> {}, importable |-> {"mod"}]
            /\ last = NoCall
            /\ callers = NoCallers

\* A slice assignment that stores the items before it validates them.
list_setslice_store_first(st, o, i, j, seq) ==
    LET handler == st.heap[o].trait
        items == st.heap[o].items
        newlen == Len(items) - (j - i) + Len(seq)
        r == validate_items(st, st.heap[handler].item_trait, seq, 1, <<>>)
        new == SubSeq(items, 1, i) \o seq \o SubSeq(items, j + 1, Len(items))
        stored == [r.st EXCEPT !.heap = [@ EXCEPT ![o].items = new]]
    IN  IF ~(st.heap[handler].minlen <= newlen /\ newlen <= st.heap[handler].maxlen)
        THEN [ok |-> FALSE, st |-> st, events |-> 0]
        ELSE IF ~r.ok
        THEN [ok |-> FALSE, st |-> stored, events |-> 0]
        ELSE [ok |-> TRUE, st |-> stored, events |-> 1]

\* object[i:j] = seq on the TraitListObject o, i and j counted from 0:
\* [ok, st, events].  The new length and the new items are validated first;
\* then the items are stored and one event is sent.
list_setslice(st, o, i, j, seq) ==
    LET handler == st.heap[o].trait
        items == st.heap[o].items
        newlen == Len(items) - (j - i) + Len(seq)
        r == validate_items(st, st.heap[handler].item_trait, seq, 1, <<>>)
        new == SubSeq(items, 1, i) \o r.items \o SubSeq(items, j + 1, Len(items))
    IN  IF ~(st.heap[handler].minlen <= newlen /\ newlen <= st.heap[handler].maxlen)
        THEN [ok |-> FALSE, st |-> st, events |-> 0]
        ELSE IF ~r.ok
        THEN [ok |-> FALSE, st |-> r.st, events |-> 0]
        ELSE [ok |-> TRUE, st |-> [r.st EXCEPT !.heap = [@ EXCEPT ![o].items = new]],
              events |-> 1]

\* object.append(value)
list_append(st, o, value) ==
    list_setslice(st, o, Len(st.heap[o].items), Len(st.heap[o].items), <<value>>)

\* object.remove(value): ValueError when the value is not in the list
list_remove(st, o, value) ==
    LET items == st.heap[o].items
        at == {k \in 1..Len(items) : items[k] = value}
        k == CHOOSE k \in at : \A m \in at : k <= m
    IN  IF at = {}
        THEN [ok |-> FALSE, st |-> st, events |-> 0]
        ELSE list_setslice(st, o, k - 1, k, <<>>)

IsListObject(o) == o \in DOMAIN heap /\ heap[o].kind = "ListObject"

Mutate(o, op, value, r) ==
    /\ heap' = r.st.heap
    /\ trait' = r.st.trait
    /\ modules' = r.st.modules
    /\ last' = [NoCall EXCEPT !.op = op, !.h = o, !.value = value, !.ok = r.ok,
                              !.events = r.events]
    /\ UNCHANGED <<shadow, built, callers>>

ListAppend(o, value) ==
    /\ IsListObject(o)
    /\ Mutate(o, "append", value, list_append(Store, o, value))

ListRemove(o, value) ==
    /\ IsListObject(o)
    /\ Mutate(o, "remove", value, list_remove(Store, o, value))

ListSetSlice(o, i, j, seq) ==
    /\ IsListObject(o)
    /\ i <= j
    /\ j <= Len(heap[o].items)
    /\ Mutate(o, "setslice", NoneV, list_setslice(Store, o, i, j, seq))

NextList ==
    \/ \E value \in ListCandidates : Validate("L", value)
    \/ \E value \in Items : ListAppend("O", value)
    \/ \E value \in Items : ListRemove("O", value)
    \/ \E i, j \in 0..MaxLen, seq \in SeqsUpTo(Items, MaxLen) : ListSetSlice("O", i, j, seq)

SpecList == InitList /\ [][NextList]_vars

(***************************************************************************)
(* Properties of TraitList                                                 *)
(***************************************************************************)
\* The item trait of the TraitList handler accepts the item as it is.
ItemAccepted(handler, item) ==
    \/ heap[handler].item_trait = NoHandler
    \/ \E i \in 1..Len(heap["E"].values) : heap["E"].values[i] = item

\* The step is validate(value) on the TraitList L.
ListValidated == last'.op = "validate" /\ last'.h = "L"

\* C16: validate on a TraitList accepts a value iff it is a list whose length
\* is within [minlen, maxlen] and whose items the item trait all accepts; it
\* then returns a new TraitListObject holding these items and bound to the
\* handler, the owner and the name, and in no case changes the caller's list.
C16_ListValidate ==
    [][ListValidated =>
          LET value == last'.value
              items == ItemsOf(heap, value)
              good == /\ value.t = "list"
                      /\ heap["L"].minlen <= Len(items)
                      /\ Len(items) <= heap["L"].maxlen
                      /\ \A i \in 1..Len(items) : ItemAccepted("L", items[i])
          IN  /\ last'.ok <=> good
              /\ heap'["A"] = heap["A"]
              /\ heap'["L"] = heap["L"]
              /\ last'.ok =>
                    /\ last'.result = ListObjectRef("O")
                    /\ last'.result # value
                    /\ heap'["O"] = [kind |-> "ListObject", trait |-> "L",
                                     object |-> "object", name |-> "name",
                                     items |-> items]]_vars

\* A list of MaxLen accepted items was accepted and came back as a
\* TraitListObject.
C16_Witness ==
    /\ last.op = "validate"
    /\ last.h = "L"
    /\ last.ok
    /\ last.value = ListRef("A")
    /\ Len(heap["A"].items) = MaxLen
    /\ heap["L"].item_trait = "E"
    /\ heap["O"].items = heap["A"].items

\* A list one item too long, and one with an item that is not accepted, were
\* rejected.
C16_WitnessTooLong ==
    /\ last.op = "validate"
    /\ last.h = "L"
    /\ ~last.ok
    /\ last.value = ListRef("A")
    /\ Len(heap["A"].items) = MaxLen + 1
    /\ \A i \in 1..Len(heap["A"].items) : ItemAccepted("L", heap["A"].items[i])

C16_WitnessBadItem ==
    /\ last.op = "validate"
    /\ last.h = "L"
    /\ ~last.ok
    /\ last.value = ListRef("A")
    /\ Len(heap["A"].items) = MaxLen
    /\ \E i \in 1..Len(heap["A"].items) : ~ItemAccepted("L", heap["A"].items[i])

\* The step is a call of append, remove or a slice assignment on O.
ListMutated == last'.op \in {"append", "remove", "setslice"}

\* C17: whatever was done to the TraitListObject O, its handler's item trait
\* accepts every item it holds and its length is within [minlen, maxlen]; a
\* call that changes it sends exactly one event, and a call that is rejected
\* sends none and leaves the items as they were.
C17_ListObjectKeepsBounds ==
    [][/\ IsListObject("O")' =>
             /\ \A i \in 1..Len(heap'["O"].items) :
                    ItemAccepted("L", heap'["O"].items[i])
             /\ heap'["L"].minlen <= Len(heap'["O"].items)
             /\ Len(heap'["O"].items) <= heap'["L"].maxlen
       /\ ListMutated =>
             IF last'.ok
             THEN last'.events = 1
             ELSE /\ last'.events = 0
                  /\ heap'["O"] = heap["O"]]_vars

\* A slice assignment that brings an item the item trait does not accept was
\* rejected.
C17_Witness ==
    /\ last.op = "setslice"
    /\ ~last.ok
    /\ heap["L"].item_trait = "E"
    /\ Len(heap["O"].items) > 0
    /\ Len(heap["O"].items) < heap["L"].maxlen

\* An append was committed.
C17_WitnessAppend ==
    /\ last.op = "append"
    /\ last.ok
    /\ last.events = 1
    /\ Len(heap["O"].items) = heap["L"].maxlen

\* A remove that would leave fewer than minlen items was rejected.
C17_WitnessRemove ==
    /\ last.op = "remove"
    /\ ~last.ok
    /\ Len(heap["O"].items) = heap["L"].minlen
    /\ Len(heap["O"].items) > 0
    /\ last.value = heap["O"].items[1]

(***************************************************************************)
(* SpecListInit: the handler L is constructed again, with any two integers *)
(* of -MaxArg..MaxArg for minlen and maxlen.                               *)
(***************************************************************************)
MaxArg == 3

\* L = TraitList(item, minlen, maxlen)
Construct(h, item, minlen, maxlen) ==
    /\ heap' = [heap EXCEPT ![h] = TraitList(heap, item, minlen, maxlen, TRUE)]
    /\ last' = [NoCall EXCEPT !.op = "init", !.h = h, !.args = <<minlen, maxlen>>]
    /\ UNCHANGED <<shadow, trait, modules, built, callers>>

NextListInit ==
    \E item \in {"E", NoHandler}, minlen, maxlen \in (0 - MaxArg)..MaxArg :
        Construct("L", item, minlen, maxlen)

SpecListInit == InitList /\ [][NextListInit]_vars

\* C18: whatever integers TraitList was given for minlen and maxlen, the
\* handler it made has minlen >= 0 and maxlen >= minlen.
C18_ClampedBounds ==
    last.op = "init" =>
        /\ heap[last.h].minlen >= 0
        /\ heap[last.h].maxlen >= heap[last.h].minlen

(***************************************************************************)
(* SpecTuple: the handler TT is a TraitTuple of up to MaxArity slots, each *)
(* an enum or a cast to str; the caller holds the tuple U and validates it *)
(* and other values.                                                       *)
(***************************************************************************)
MaxArity == 2

SlotHandlers == {"E", "K"}

TupleItems == {S_yes, S_no, I_one}

TupleCandidates == {TupleRef("U"), S_yes, NoneV}

InitTuple ==
    \E types \in SeqsUpTo(SlotHandlers, MaxArity),
       items \in SeqsUpTo(TupleItems, MaxArity + 1) :
        /\ heap = [x \in {"E", "K", "TT", "U"} |->
                      CASE x = "TT" -> TraitTuple(types)
                        [] x = "U" -> [kind |-> "tuple", items |-> items]
                        [] OTHER -> Leaves[x]]
        /\ trait = [handler |-> "TT", validate |-> <<"tuple", types>>]
        /\ built = <<>>
        /\ shadow = Unset
        /\ modules = [loaded |-> {}, importable |-> {"mod"}]
        /\ last = NoCall
        /\ callers = NoCallers

NextTuple == \E value \in TupleCandidates : Validate("TT", value)

SpecTuple == InitTuple /\ [][NextTuple]_vars

\* C19: validate on a TraitTuple accepts a value iff it is a tuple with as many
\* items as the handler has slots, each accepted by the handler of its slot;
\* it then returns a new tuple of what the slots' handlers returned, in slot
\* order; a rejected call makes no tuple, and no call changes the caller's.
C19_TupleValidate ==
    [][last'.op = "validate" /\ last'.h = "TT" =>
          LET value == last'.value
              items == ItemsOf(heap, value)
              types == heap["TT"].types
              good == /\ value.t = "tuple"
                      /\ Len(items) = Len(types)
                      /\ \A i \in 1..Len(types) : validate(Store, types[i], items[i]).ok
          IN  /\ last'.ok <=> good
              /\ heap'["U"] = heap["U"]
              /\ IF last'.ok
                 THEN /\ last'.result = TupleRef("R")
                      /\ heap'["R"].items =
                             [i \in 1..Len(types) |->
                                 validate(Store, types[i], items[i]).value]
                 ELSE heap' = heap]_vars

\* A tuple was accepted and a slot changed its item.
C19_Witness ==
    /\ last.op = "validate"
    /\ last.h = "TT"
    /\ last.ok
    /\ Len(heap["TT"].types) = MaxArity
    /\ heap["R"].items # heap["U"].items

\* A tuple with one item too many, all accepted by the handlers of the first
\* slots, was rejected.
C19_WitnessLonger ==
    /\ last.op = "validate"
    /\ ~last.ok
    /\ last.value = TupleRef("U")
    /\ Len(heap["U"].items) = MaxArity + 1
    /\ Len(heap["TT"].types) = MaxArity
    /\ \A i \in 1..MaxArity :
           validate(Store, heap["TT"].types[i], heap["U"].items[i]).ok

\* A tuple whose second item its slot rejects was rejected.
C19_WitnessSlot ==
    /\ last.op = "validate"
    /\ ~last.ok
    /\ last.value = TupleRef("U")
    /\ Len(heap["U"].items) = Len(heap["TT"].types)
    /\ Len(heap["U"].items) >= 2
    /\ validate(Store, heap["TT"].types[1], heap["U"].items[1]).ok
    /\ ~validate(Store, heap["TT"].types[2], heap["U"].items[2]).ok

(***************************************************************************)
(* SpecCoerce: the handler CT is a TraitCoerceType of one of the simple    *)
(* types, and values of all of them are validated.                         *)
(***************************************************************************)
CoerceTypes == {aClass.name : aClass \in TypeTypes}

F_half == FloatV("0", "5")
F_one_half == FloatV("1", "5")

CoerceCandidates ==
    {I_zero, I_one, I_two, F_half, F_one_half, ComplexV(F_half, F_one_half),
     S_yes, S_no, BoolV("True"), BoolV("False"), L_empty, NoneV, ObjC}

InitCoerce ==
    /\ \E aType \in CoerceTypes : heap = [CT |-> TraitCoerceType(aType)]
    /\ trait = [handler |-> "CT", validate |-> heap["CT"].fast_validate]
    /\ built = <<>>
    /\ shadow = Unset
    /\ modules = [loaded |-> {}, importable |-> {"mod"}]
    /\ last = NoCall
    /\ callers = NoCallers

NextCoerce == \E value \in CoerceCandidates : Validate("CT", value)

SpecCoerce == InitCoerce /\ [][NextCoerce]_vars

\* The conversions that lose nothing: int to float, int and float to complex.
Widenings == {<<"int", "float">>, <<"int", "complex">>, <<"float", "complex">>}

\* C20: validate on a TraitCoerceType of type T returns a value of type T as
\* it is, returns T(value) for an int when T is float and for an int or a
\* float when T is complex, and rejects every other value.
C20_WideningOnly ==
    last.op = "validate" /\ heap[last.h].kind = "Coerce" =>
        LET T == heap[last.h].aType
        IN  IF last.value.t = T
            THEN last.ok /\ last.result = last.value
            ELSE IF <<last.value.t, T>> \in Widenings
            THEN /\ last.ok
                 /\ last.result.t = T
                 /\ last.result = Widen(T, last.value)
            ELSE ~last.ok

\* An int was widened to a float.
C20_Witness ==
    /\ last.op = "validate"
    /\ last.h = "CT"
    /\ last.ok
    /\ last.value = I_two
    /\ last.result = FloatV("2", "0")

\* A float was rejected by TraitCoerceType(int), and a str by TraitCoerceType(float).
C20_WitnessNarrowing ==
    /\ last.op = "validate"
    /\ ~last.ok
    /\ \/ heap["CT"].aType = "int" /\ last.value = F_one_half
       \/ heap["CT"].aType = "float" /\ last.value = S_yes

(***************************************************************************)
(* SpecCast: the handler KT is a TraitCastType of one of the types with a  *)
(* conversion call; values of all types are validated, and so is the value *)
(* a validate call has returned.                                           *)
(***************************************************************************)
CastTypes == {"str", "int", "float", "complex", "bool"}

S_one == Str(<<"1">>)
S_one_half == Str(<<"1", ".", "5">>)
F_zero == FloatV("0", "0")

CastCandidates ==
    {I_zero, I_one, I_two, F_zero, F_half, F_one_half, ComplexV(F_half, F_one_half),
     ComplexV(F_zero, F_zero), S_yes, S_one, S_one_half, S_empty,
     BoolV("True"), BoolV("False"), L_empty, NoneV, ObjC}

InitCast ==
    /\ \E aType \in CastTypes : heap = [KT |-> TraitCastType(aType)]
    /\ trait = [handler |-> "KT", validate |-> heap["KT"].fast_validate]
    /\ built = <<>>
    /\ shadow = Unset
    /\ modules = [loaded |-> {}, importable |-> {"mod"}]
    /\ last = NoCall
    /\ callers = NoCallers

\* handler.validate(object, name, handler.validate(object, name, x)): the
\* second call, on the value the first one returned; args keeps x.
Revalidate(h) ==
    /\ last.op = "validate"
    /\ last.h = h
    /\ last.ok
    /\ LET r == validate(Store, h, last.result)
       IN  /\ heap' = r.st.heap
           /\ trait' = r.st.trait
           /\ modules' = r.st.modules
           /\ last' = [NoCall EXCEPT !.op = "validate", !.h = h,
                                     !.value = last.result, !.ok = r.ok,
                                     !.result = r.value, !.via = r.via,
                                     !.before = shadow, !.follows = TRUE,
                                     !.args = <<last.value>>]
    /\ UNCHANGED <<shadow, built, callers>>

CastValidate == \E value \in CastCandidates : Validate("KT", value)

NextCast == CastValidate \/ Revalidate("KT")

SpecCast == InitCast /\ [][NextCast]_vars

\* C21: validate of a TraitCastType of type T, given the value a validate
\* call of it has returned, returns that value again; a value whose type is T
\* is returned as it is; and a value of another type whose conversion call
\* T(value) raises is rejected.
C21_CastIdempotent ==
    last.op = "validate" /\ heap[last.h].kind = "Cast" =>
        LET T == heap[last.h].aType
        IN  /\ last.follows => last.ok /\ last.result = last.value
            /\ last.value.t = T => last.ok /\ last.result = last.value
            /\ last.value.t # T /\ ~Convert(T, last.value).ok => ~last.ok

\* float("1.5") was validated to 1.5, and validating 1.5 returned 1.5.
C21_Witness ==
    /\ last.op = "validate"
    /\ last.follows
    /\ heap["KT"].aType = "float"
    /\ last.args = <<S_one_half>>
    /\ last.value = F_one_half
    /\ last.ok
    /\ last.result = F_one_half

\* int("yes") raised, and the value was rejected.
C21_WitnessRaises ==
    /\ last.op = "validate"
    /\ heap["KT"].aType = "int"
    /\ last.value = S_yes
    /\ ~last.ok

(***************************************************************************)
(* SpecDict: L is a TraitList and DI a TraitDict; the TraitDict D is made  *)
(* with one of them, the enum E or nothing for its values; handlers are    *)
(* cloned and the has_items of a clone is set.  The caller holds the lists *)
(* A and A2 and the dicts B, B2 and B3.                                    *)
(***************************************************************************)
\* The lists and the dicts the caller holds.
CallerObjects ==
    [A |-> [kind |-> "list", items |-> <<S_yes>>],
     A2 |-> [kind |-> "list", items |-> <<S_no>>],
     B |-> [kind |-> "dict", items |-> <<<<S_yes, S_yes>>>>],
     B2 |-> [kind |-> "dict", items |-> <<<<S_yes, ListRef("A")>>>>],
     B3 |-> [kind |-> "dict", items |-> <<<<S_no, L_empty>>, <<S_yes, ListRef("A2")>>>>]]

DictCandidates ==
    {DictRef("B"), DictRef("B2"), DictRef("B3"), ListRef("A"), ListRef("A2"),
     L_empty, S_yes}

ContainerHandlers == {"L", "DI", "D"} \cup {Cells[i] : i \in 1..Len(Cells)}

IsContainerHandler(h) == h \in DOMAIN heap /\ heap[h].kind \in {"List", "Dict"}

InitDict ==
    \E item \in {"E", NoHandler}, minlen \in {0 - 1, 1}, maxlen \in {0 - 1, MaxLen},
       has_items \in BOOLEAN :
        LET hp == With(CallerObjects, "E", Leaves["E"])
            hl == With(hp, "L", TraitList(hp, item, minlen, maxlen, has_items))
        IN  /\ heap = TraitDict(hl, "DI", "E", "E", TRUE)
            /\ trait = [handler |-> "L", validate |-> Absent]
            /\ built = <<>>
            /\ shadow = Unset
            /\ modules = [loaded |-> {}, importable |-> {"mod"}]
            /\ last = NoCall
            /\ callers = NoCallers

\* D = TraitDict(key, value, has_items)
NewDict(key, value, has_items) ==
    /\ "D" \notin DOMAIN heap
    /\ heap' = TraitDict(heap, "D", key, value, has_items)
    /\ last' = [NoCall EXCEPT !.op = "init", !.h = "D"]
    /\ UNCHANGED <<shadow, trait, modules, built, callers>>

\* h.clone(), while there are cells for the handlers it makes
Clone(h) ==
    /\ IsContainerHandler(h)
    /\ Cardinality(FreeCells(heap)) >= 2
    /\ LET c == clone(heap, h)
       IN  /\ heap' = c.heap
           /\ last' = [NoCall EXCEPT !.op = "clone", !.h = h,
                                     !.result = Obj(heap[h].kind, c.id)]
    /\ UNCHANGED <<shadow, trait, modules, built, callers>>

\* h.has_items = flag, h the handler that clone has just returned
SetHasItems(h, flag) ==
    /\ IsContainerHandler(h)
    /\ last.op = "clone"
    /\ h = last.result.s[1]
    /\ heap' = [heap EXCEPT ![h].has_items = flag]
    /\ last' = [NoCall EXCEPT !.op = "set_has_items", !.h = h]
    /\ UNCHANGED <<shadow, trait, modules, built, callers>>

NextDict ==
    \/ \E key \in {"E", NoHandler}, value \in {"E", "L", "DI", NoHandler},
          has_items \in BOOLEAN : NewDict(key, value, has_items)
    \/ \E h \in ContainerHandlers : Clone(h)
    \/ \E h \in ContainerHandlers, flag \in BOOLEAN : SetHasItems(h, flag)

SpecDict == InitDict /\ [][NextDict]_vars

(***************************************************************************)
(* Properties of TraitDict and of clone                                    *)
(***************************************************************************)
\* The step makes the TraitDict D.
DictMade == "D" \notin DOMAIN heap /\ "D" \in DOMAIN heap'

\* The step leaves every object there was as it was.
OthersKept == \A x \in DOMAIN heap : heap'[x] = heap[x]

\* The handler used, in the heap hp, is a handler of the class of the handler
\* value and of the same traits.
SameTraits(hp, value, used) ==
    /\ hp[used].kind = hp[value].kind
    /\ hp[value].kind = "List" => hp[used].item_trait = hp[value].item_trait
    /\ hp[value].kind = "Dict" =>
            /\ hp[used].key_trait = hp[value].key_trait
            /\ hp[used].value_trait = hp[value].value_trait

\* C22: TraitDict made with a value trait whose handler has has_items set
\* takes for value_handler a new handler of the same class and traits whose
\* has_items is False, and leaves the handler it was given, has_items and
\* all, as it was; made with a value trait whose handler has no has_items set,
\* it takes that handler itself and makes no other object.
C22_NestedCloneUntracked ==
    [][DictMade =>
          LET value == heap'["D"].value_trait
              used == heap'["D"].value_handler
          IN  /\ OthersKept
              /\ IF value # NoHandler /\ HasItems(heap, value)
                 THEN /\ used \notin DOMAIN heap
                      /\ used # "D"
                      /\ SameTraits(heap', value, used)
                      /\ ~heap'[used].has_items
                      /\ heap'[value].has_items
                 ELSE /\ used = value
                      /\ DOMAIN heap' = DOMAIN heap \cup {"D"}]_vars

\* D was made with the TraitList L, whose has_items is set, and uses another
\* TraitList, whose has_items is not.
C22_Witness ==
    /\ last.op = "init"
    /\ "D" \in DOMAIN heap
    /\ heap["D"].value_trait = "L"
    /\ heap["L"].has_items
    /\ heap["D"].value_handler \notin {"L", "D"}
    /\ heap[heap["D"].value_handler].kind = "List"
    /\ ~heap[heap["D"].value_handler].has_items

\* D was made with a TraitList whose has_items is not set, and uses it.
C22_WitnessAsIs ==
    /\ last.op = "init"
    /\ "D" \in DOMAIN heap
    /\ heap["D"].value_trait = "L"
    /\ ~heap["L"].has_items
    /\ heap["D"].value_handler = "L"

\* D was made with the TraitDict DI and uses another TraitDict.
C22_WitnessDict ==
    /\ last.op = "init"
    /\ "D" \in DOMAIN heap
    /\ heap["D"].value_trait = "DI"
    /\ heap["D"].value_handler \notin {"DI", "D"}
    /\ heap[heap["D"].value_handler].kind = "Dict"
    /\ ~heap[heap["D"].value_handler].has_items
    /\ heap["DI"].has_items

\* The step is a call of clone; last' names the handler cloned and the one
\* returned.
Cloned == last'.op = "clone" /\ DOMAIN heap' # DOMAIN heap

\* The handlers o and c of the heap hp have the same configuration: the same
\* traits, bounds and has_items, and for a TraitDict a value_handler that is
\* the value trait's own for both or alike for both.
SameConfiguration(hp, o, c) ==
    /\ SameTraits(hp, o, c)
    /\ hp[c].has_items = hp[o].has_items
    /\ hp[o].kind = "List" =>
            /\ hp[c].minlen = hp[o].minlen
            /\ hp[c].maxlen = hp[o].maxlen
    /\ hp[o].kind = "Dict" =>
            \/ /\ hp[o].value_handler = hp[o].value_trait
               /\ hp[c].value_handler = hp[c].value_trait
            \/ /\ hp[o].value_handler # hp[o].value_trait
               /\ hp[c].value_handler # hp[c].value_trait
               /\ hp[hp[c].value_handler] = hp[hp[o].value_handler]

\* The handlers o and c accept the same candidates.
SameAccepted(st, o, c) ==
    \A value \in DictCandidates : validate(st, o, value).ok = validate(st, c, value).ok

\* C23: clone of a TraitList or a TraitDict returns a new handler of the same
\* configuration as the one cloned, which accepts the values that one
\* accepts and no other, and leaves every object there was as it was; setting
\* has_items of the clone afterwards changes the clone alone.
C23_CloneSameConfiguration ==
    [][/\ Cloned =>
            LET o == last'.h
                c == last'.result.s[1]
                st == [heap |-> heap', trait |-> trait', modules |-> modules']
            IN  /\ c \notin DOMAIN heap
                /\ OthersKept
                /\ SameConfiguration(heap', o, c)
                /\ SameAccepted(st, o, c)
       /\ last'.op = "set_has_items" =>
            \A x \in DOMAIN heap \ {last'.h} : heap'[x] = heap[x]]_vars

(***************************************************************************)
(* The cache of a prefix handler                                           *)
(***************************************************************************)
\* values_ of the TraitPrefixList, _map of the TraitPrefixMap h of the heap hp
CacheOf(hp, h) == IF hp[h].kind = "PrefixList" THEN hp[h].values_ ELSE hp[h]._map

\* Before any call the cache of P maps every full string to itself and holds
\* nothing else; at any time every entry maps a prefix of a full string to
\* that full string.
CacheSound ==
    LET cache == CacheOf(heap, "P")
    IN  /\ last.op = "none" =>
                /\ DOMAIN cache = Range(FullStrings("P"))
                /\ \A k \in DOMAIN cache : cache[k] = k
        /\ \A k \in DOMAIN cache :
                /\ cache[k] \in Range(FullStrings("P"))
                /\ IsPrefix(k, cache[k])

\* A step keeps every entry of the cache of P as it is, and adds one only in
\* a validate call that accepts a candidate the cache did not hold: the entry
\* of that candidate, with the value returned.
CacheGrows ==
    LET cache == CacheOf(heap, "P")
        after == CacheOf(heap', "P")
    IN  /\ \A k \in DOMAIN cache : k \in DOMAIN after /\ after[k] = cache[k]
        /\ IF last'.op = "validate" /\ last'.ok /\ last'.value \notin DOMAIN cache
           THEN /\ DOMAIN after = DOMAIN cache \cup {last'.value}
                /\ after[last'.value] = last'.result
           ELSE after = cache

\* C24: the cache of a prefix handler starts as the map of every full string
\* to itself; a validate call that resolves a candidate not in the cache adds
\* the entry candidate -> match, and no step does anything else to the cache:
\* no entry is removed or altered, and a rejected call leaves the cache as it
\* was; every entry k -> v has v among the full strings and k a prefix of v.
C24_CacheMonotonic == []CacheSound /\ [][CacheGrows]_vars

\* A proper prefix was resolved and is now in the cache, next to an entry of
\* an earlier call.
C24_Witness ==
    /\ PrefixValidated
    /\ last.ok
    /\ last.value \notin Range(FullStrings("P"))
    /\ last.value \in DOMAIN CacheOf(heap, "P")
    /\ CacheOf(heap, "P")[last.value] = last.result
    /\ Cardinality(DOMAIN CacheOf(heap, "P")) >= Cardinality(Range(FullStrings("P"))) + 2

\* An ambiguous candidate was rejected after the cache had grown, and is not
\* in the cache.
C24_WitnessRejected ==
    /\ PrefixValidated
    /\ ~last.ok
    /\ Cardinality(Prefixed("P", last.value)) > 1
    /\ last.value \notin DOMAIN CacheOf(heap, "P")
    /\ Cardinality(DOMAIN CacheOf(heap, "P")) > Cardinality(Range(FullStrings("P")))

====
